---- MODULE Spec2Model ----
(***************************************************************************)
(* ExtraCompiler / ProcessExtraCompiler (projectexplorer/extracompiler.cpp)*)
(* as a state machine: one compiler instance, its content cache, its       *)
(* watermark, the editor bridge with its debounce timer, the tracked       *)
(* QFutureWatcher and the runInThread executions on the worker pool.       *)
(*                                                                         *)
(* Time is counted in ticks of 1/TicksPerSecond seconds.  A QDateTime is a *)
(* natural number of ticks; the invalid QDateTime() is NoTime, which       *)
(* compares below every file time as the default-constructed value does.   *)
(***************************************************************************)
EXTENDS Integers, Sequences, FiniteSets, TLC

\* ---------------------------------------------------------------- bounds
MaxRuns == 3          \* runs started over the life of the instance
MaxTicks == 3         \* ticks the clock advances after construction
MaxMTime == 2         \* file modification times at construction: 1..MaxMTime
MaxObjects == 4       \* factories and observers constructed over the life of the process
TicksPerSecond == 2   \* resolution of the clock
PoolThreads == 2      \* threads of s_extraCompilerThreadPool

\* ------------------------------------------------------ program constants
TimerInterval == 1000 \* d->timer.start(1000), milliseconds
NoTime == 0           \* QDateTime(): !isValid()
NoWatcher == 0        \* m_watcher == nullptr

IntervalTicks == (TimerInterval * TicksPerSecond) \div 1000
TimerOff == -1

\* ------------------------------------------------------------- the world
Paths == {"t1", "t2", "x"}          \* file paths; "x" is never a target
Targets == {"t1", "t2"}             \* the targets passed to the constructor
Source == "src"                     \* d->source
OutBytes == {"a", "b"}              \* bytes a generator produces
DocBytes == {"s1", "s2"}            \* buffer contents of the source document
Bytes == {""} \cup OutBytes         \* "" is the empty QByteArray
NoEditor == "null"                  \* Core::IEditor * nullptr
Editors == {"eSrc", "eOther"}       \* eSrc shows the source, eOther another file
Projects == {"own", "other"}        \* "own" is d->project

\* eBin shows the source in an editor whose widget is no TextEditorWidget
AllEditors == Editors \cup {"eBin"}

DocPath(editor) == IF editor \in {"eSrc", "eBin"} THEN Source ELSE "elsewhere"

NoFile == [exists |-> FALSE, mtime |-> NoTime, data |-> "", readable |-> FALSE]
File(m, b, r) == [exists |-> TRUE, mtime |-> m, data |-> b, readable |-> r]

\* FileNameToContentsHash values a run can report, the empty hash included
ResultMaps == UNION {[S -> OutBytes] : S \in SUBSET Paths}

BytesProvider(b) == [kind |-> "bytes", bytes |-> b]
FileProvider == [kind |-> "file", bytes |-> ""]
Evaluated == [kind |-> "evaluated", bytes |-> ""]   \* the provider was called
NullContent == "null"                \* QByteArray(): isNull()
\* what the provider of run(fileName) can read: the bytes of the source file,
\* or QByteArray() when the file cannot be opened
SourceContents == {NullContent, "f1", "f2"}

VARIABLES
    ctl,          \* "live", "dtorWait" (in ~ProcessExtraCompiler), "destroyed"
    contents,     \* d->contents
    compileTime,  \* d->compileTime
    dirty,        \* d->dirty
    lastEditor,   \* d->lastEditor
    timer,        \* d->timer: ticks left, or TimerOff
    initialRun,   \* pending QTimer::singleShot(0) callbacks of the constructor
    m_watcher,    \* the tracked watcher (the id of its run), or NoWatcher
    watchers,     \* the QFutureWatcher objects that exist
    runs,         \* the runs started so far, by id
    doc,          \* contents of the source document in the editor
    disk,         \* the target files on disk
    sourceTime,   \* d->source.lastModified()
    now,          \* QDateTime::currentDateTime()
    subs,         \* connections contentsChanged -> setDirty on the source document
    sinceEdit,    \* ticks since the last setDirty (at most IntervalTicks are counted)
    burst,        \* setDirty calls of the latest dirty period (at most 2 are counted)
    emitted,      \* contentsChanged(file) signals emitted by the last step
    lastOp,       \* the last step taken
    issues,       \* d->issues
    annotations,  \* the CodeWarningsSelection extra selections of each editor
    deletePending,\* deleteLater() was called on the instance
    th,           \* runInThread of each run, followed statement by statement
    factories,    \* the global list of ExtraCompilerFactory objects
    observers,    \* the global vector of ExtraCompilerFactoryObserver objects
    notified,     \* the newExtraCompiler calls of the last annouceCreation
    born,         \* when each live factory or observer was constructed (0: not alive)
    built,        \* factories and observers constructed so far
    device,       \* an IDevice
    deviceMap,    \* a QVariantMap written by toMap
    restored,     \* the IDevice restored by fromMap or clone
    sourceFile    \* what reading the source file from disk yields

vars == <<ctl, contents, compileTime, dirty, lastEditor, timer, initialRun,
          m_watcher, watchers, runs, doc, disk, sourceTime, now, subs, sinceEdit,
          burst, emitted, lastOp, issues, annotations, deletePending, th,
          factories, observers, notified, born, built, device, deviceMap, restored,
          sourceFile>>

runVars == <<m_watcher, watchers, runs>>
worldVars == <<doc, disk, sourceTime, now>>
registryVars == <<factories, observers, notified, born, built>>
deviceVars == <<device, deviceMap, restored>>
sideVars == <<issues, deletePending, th, registryVars, deviceVars, sourceFile>>
instanceVars == <<ctl, contents, compileTime, dirty, lastEditor, timer, initialRun,
                  runVars, subs, sinceEdit, burst, emitted, worldVars, annotations,
                  issues, deletePending, th, sourceFile>>

NoEmit == [p \in Paths |-> 0]

\* lastOp: the handler, its arguments, and what it did: the run whose future
\* cleanUp read and the watcher that signalled, the run the step started, the
\* editor bound when that run was started, whether a result was adopted, the
\* resultCount() and result() seen, and whether the call repeats the last one
Op(name, arg, data) ==
    [op |-> name, arg |-> arg, data |-> data, run |-> 0, sender |-> 0,
     started |-> 0, boundAtRun |-> NoEditor, adopted |-> FALSE,
     results |-> 0, result |-> <<>>, repeat |-> FALSE]

\* ------------------------------------------------------------ setContent
\* mutant: d->contents[file] = contents, which inserts a missing key
SetContentMapInsert(c, file, bytes) ==
    IF file \in DOMAIN c /\ c[file] = bytes THEN c ELSE (file :> bytes) @@ c

\* the cache after setContent(file, bytes)
SetContentMap(c, file, bytes) ==
    IF file \in DOMAIN c /\ c[file] # bytes THEN [c EXCEPT ![file] = bytes] ELSE c

\* mutant: the signal emitted without comparing the bytes
SetContentEmitsAlways(c, file, bytes) == file \in DOMAIN c

\* whether setContent(file, bytes) emits contentsChanged(file)
SetContentEmits(c, file, bytes) ==
    file \in DOMAIN c /\ c[file] # bytes

\* setContent for every entry of a hash, one after the other
RECURSIVE InstallAll(_, _, _, _)
InstallAll(c, em, data, keys) ==
    IF keys = {} THEN [c |-> c, em |-> em]
    ELSE LET k == CHOOSE k \in keys : TRUE
         IN InstallAll(SetContentMap(c, k, data[k]),
                       IF SetContentEmits(c, k, data[k])
                       THEN [em EXCEPT ![k] = @ + 1] ELSE em,
                       data, keys \ {k})

\* ----------------------------------------------------------- constructor
\* mutant: a target as old as the source counted as out of date
TargetStaleOrEqual(f, srcTime) == ~f.exists \/ f.mtime <= srcTime

\* the tests that set d->dirty in the scan: the target is missing, or its
\* lastModified() < sourceTime
TargetStale(f, srcTime) == ~f.exists \/ f.mtime < srcTime

\* mutant: the watermark taken from the latest target
ScanTimeLatest(ct, f) == IF ct = NoTime \/ ct < f.mtime THEN f.mtime ELSE ct

\* d->compileTime after an existing target has been looked at
ScanTime(ct, f) == IF ct = NoTime \/ ct > f.mtime THEN f.mtime ELSE ct

\* mutant: only targets that are up to date are loaded
ScanLoadsFresh(f, srcTime) == f.readable /\ f.mtime >= srcTime

\* file.open(QFile::ReadOnly | QFile::Text) of an existing target succeeds
ScanLoads(f, srcTime) == f.readable

RECURSIVE ScanTargets(_, _, _, _)
ScanTargets(st, keys, dsk, srcTime) ==
    IF keys = {} THEN st
    ELSE LET t == CHOOSE t \in keys : TRUE
             f == dsk[t]
             rest == keys \ {t}
         IN IF ~f.exists
            THEN ScanTargets([st EXCEPT !.dirty = st.dirty \/ TargetStale(f, srcTime)],
                             rest, dsk, srcTime)
            ELSE LET d1 == st.dirty \/ TargetStale(f, srcTime)
                     ct == ScanTime(st.ct, f)
                     load == ScanLoads(f, srcTime)
                     c1 == IF load THEN SetContentMap(st.c, t, f.data) ELSE st.c
                     e1 == IF load /\ SetContentEmits(st.c, t, f.data)
                           THEN [st.em EXCEPT ![t] = @ + 1] ELSE st.em
                 IN ScanTargets([dirty |-> d1, ct |-> ct, c |-> c1, em |-> e1],
                                rest, dsk, srcTime)

Construct(targets, dsk, srcTime) ==
    ScanTargets([dirty |-> FALSE, ct |-> NoTime, c |-> [t \in targets |-> ""],
                 em |-> NoEmit],
                targets, dsk, srcTime)

\* mutant: the deferred run scheduled inside the scan, once per stale target
CtorScheduledPerTarget(scanDirty, targets, dsk, srcTime) ==
    Cardinality({t \in targets : TargetStale(dsk[t], srcTime)})

\* the QTimer::singleShot(0) calls of the constructor: one if the scan left
\* d->dirty set
CtorScheduled(scanDirty, targets, dsk, srcTime) == IF scanDirty THEN 1 ELSE 0

\* mutant: the flag kept when the run is scheduled
CtorDirtyKept(scanDirty) == scanDirty

\* d->dirty when the constructor returns: if (d->dirty) { d->dirty = false; ... }
CtorDirty(scanDirty) == FALSE

\* content(file): d->contents.value(file)
Content(c, file) == IF file \in DOMAIN c THEN c[file] ELSE ""

InitFiles == {NoFile} \cup {File(m, b, TRUE) : m \in 1..MaxMTime, b \in {"a"}}

\* ------------------------------------------------- factories, observers
FactoryIds == {"f1", "f2"}      \* ExtraCompilerFactory objects
ObserverIds == {"o1", "o2"}     \* ExtraCompilerFactoryObserver objects

\* no worker is followed, nothing registered, no device
\* a worker execution that has not been entered: where it is, the command and
\* the source contents it got, the process (as the system has it) and
\* QProcess::state(), the local isCanceled, the calls made so far
NoThread ==
    [pc |-> "none", cmd |-> "", content |-> "", prepared |-> "notAsked", proc |-> "none",
     state |-> "NotRunning", isCanceled |-> FALSE, observed |-> "",
     started |-> 0, finished |-> 0, error |-> 0, killed |-> 0, reported |-> 0]
NoDevice == [valid |-> FALSE]
NoMap == <<>>

\* the instance when the constructor has returned
InitInstance(files, srcTimes) ==
    /\ sourceTime \in srcTimes
    /\ disk \in [Targets -> files]
    /\ now = MaxMTime
    /\ doc = "s1"
    /\ sourceFile = "f1"
    /\ LET k == Construct(Targets, disk, sourceTime)
       IN /\ contents = k.c
          /\ compileTime = k.ct
          /\ initialRun = CtorScheduled(k.dirty, Targets, disk, sourceTime)
          /\ dirty = CtorDirty(k.dirty)
          /\ emitted = k.em
    /\ ctl = "live"
    /\ lastEditor = NoEditor
    /\ timer = TimerOff
    /\ m_watcher = NoWatcher
    /\ watchers = {}
    /\ runs = <<>>
    /\ subs = 0
    /\ sinceEdit = IntervalTicks
    /\ burst = 0
    /\ lastOp = Op("ctor", "", "")
    /\ issues = <<>>
    /\ annotations = [e \in AllEditors |-> <<>>]
    /\ deletePending = FALSE
    /\ th = [r \in 1..MaxRuns |-> NoThread]

\* the global statics before any factory or observer exists
InitRegistry ==
    /\ factories = <<>>
    /\ observers = <<>>
    /\ notified = <<>>
    /\ born = [x \in FactoryIds \cup ObserverIds |-> 0]
    /\ built = 0

InitNoDevice ==
    /\ device = NoDevice
    /\ deviceMap = NoMap
    /\ restored = NoDevice

InitOn(files, srcTimes) ==
    /\ InitInstance(files, srcTimes)
    /\ InitRegistry
    /\ InitNoDevice

Init == InitOn(InitFiles, 1..MaxMTime)

\* construction over every kind of target file: missing, unreadable, empty,
\* older or newer than the source; the source itself may be missing, its
\* lastModified() is then the invalid QDateTime
CtorFiles == {NoFile} \cup {File(m, b, r) : m \in 1..MaxMTime, b \in Bytes, r \in BOOLEAN}

InitCtor == InitOn(CtorFiles, 0..MaxMTime)

\* ------------------------------------------------------------------ runs
\* a run: where runInThread is, whether the future is cancelled, the content
\* provider, and resultCount() of the future.  The hash that was reported is
\* read by nobody but cleanUp, so the model draws it when cleanUp reads it.
\* mutant: the run executed before runImpl returns
NewRunInline(input) ==
    [st |-> "finished", cancelled |-> FALSE, input |-> Evaluated, results |-> 1]

NewRun(input) ==
    [st |-> "queued", cancelled |-> FALSE, input |-> input, results |-> 0]

\* a finished run's result lives as long as a watcher holds its future
Release(rs, ws) ==
    [r \in DOMAIN rs |->
        IF rs[r].st \in {"finished", "handled"} /\ r \notin ws
        THEN [rs[r] EXCEPT !.results = 0] ELSE rs[r]]

\* mutant: runImpl without "delete m_watcher"
WatchersAfterRunLeak(ws, old, id) == ws \cup {id}

\* runImpl: delete m_watcher; m_watcher = new QFutureWatcher
WatchersAfterRun(ws, old, id) == (ws \ {old}) \cup {id}

CanRun == Len(runs) < MaxRuns

\* mutant: the file read on the control thread, when the run is set up
ScheduledEvaluated(input, file) ==
    IF input.kind = "file" THEN BytesProvider(file) ELSE input

\* run(...) wraps its argument in a ContentProvider lambda and runImpl hands
\* the lambda to runAsync: nothing is read before the worker calls it
Scheduled(input, file) == input

\* mutant: the future of the watcher that is replaced gets cancelled
FuturesAfterRunCancel(rs, old) ==
    IF old # NoWatcher THEN [rs EXCEPT ![old].cancelled = TRUE] ELSE rs

\* runImpl deletes the old watcher and does nothing to its future
FuturesAfterRun(rs, old) == rs

\* mutant: run() returns without setting up a run
RunImplDropped(input) ==
    /\ watchers' = watchers
    /\ m_watcher' = m_watcher
    /\ runs' = runs

RunImpl(input) ==
    LET id == Len(runs) + 1
        ws == WatchersAfterRun(watchers, m_watcher, id)
    IN /\ watchers' = ws
       /\ m_watcher' = id
       /\ runs' = Release(Append(FuturesAfterRun(runs, m_watcher),
                                 NewRun(Scheduled(input, sourceFile))), ws)

Started(op, bound) ==
    [op EXCEPT !.started = Len(runs) + 1, !.boundAtRun = bound]

Live == ctl = "live"

\* ----------------------------------------------- control-thread handlers
\* the deferred run of the constructor: run(d->source)
InitialRunTick ==
    /\ Live /\ initialRun > 0 /\ CanRun
    /\ initialRun' = initialRun - 1
    /\ RunImpl(FileProvider)
    /\ emitted' = NoEmit
    /\ lastOp' = Started(Op("initialRun", "", ""), lastEditor)
    /\ UNCHANGED <<ctl, contents, compileTime, dirty, lastEditor, timer, subs,
                   sinceEdit, burst, worldVars, annotations, sideVars>>

\* mutant: the timer started only when it is not running
TimerAfterSetDirtyKeep(t) == IF t # TimerOff THEN t ELSE IntervalTicks

\* setDirty: d->dirty = true; d->timer.start(1000)
TimerAfterSetDirty(t) == IntervalTicks

\* the source document changes; every connection calls setDirty
DocEdit(b) ==
    /\ Live
    /\ doc' = b
    /\ IF subs > 0
       THEN /\ dirty' = TRUE
            /\ timer' = TimerAfterSetDirty(timer)
            /\ sinceEdit' = 0
            /\ burst' = IF ~dirty THEN 1 ELSE IF burst < 2 THEN burst + 1 ELSE burst
            /\ lastOp' = Op("setDirty", "", b)
       ELSE /\ UNCHANGED <<dirty, timer, sinceEdit, burst>>
            /\ lastOp' = Op("edit", "", b)
    /\ emitted' = NoEmit
    /\ UNCHANGED <<ctl, contents, compileTime, lastEditor, initialRun, runVars,
                   disk, sourceTime, now, subs,
                   annotations, sideVars>>

\* mutant: the timeout handler starts nothing
TimerRunsNever(d, e) == FALSE

\* mutant: the timeout handler without the test of d->dirty
TimerRunsWhenBound(d, e) == e # NoEditor

\* the timeout handler of d->timer (single shot)
TimerRuns(d, e) == d /\ e # NoEditor

TimerTimeout ==
    /\ Live /\ timer = 0
    /\ timer' = TimerOff
    /\ IF TimerRuns(dirty, lastEditor)
       THEN /\ CanRun
            /\ dirty' = FALSE
            /\ RunImpl(BytesProvider(doc))
            /\ lastOp' = Started(Op("timeout", "", doc), lastEditor)
       ELSE /\ UNCHANGED <<dirty, runVars>>
            /\ lastOp' = Op("timeout", "", "")
    /\ emitted' = NoEmit
    /\ UNCHANGED <<ctl, contents, compileTime, lastEditor, initialRun, subs,
                   sinceEdit, burst, worldVars, annotations, sideVars>>

\* mutant: the editor dropped without looking at the dirty flag
DetachRunsNever(d, e) == FALSE

\* the old-editor part of onEditorChanged and of onEditorAboutToClose:
\* when dirty, run(doc->contents())
DetachRuns(d, e) == d

\* --------------------------------------------------------------- issues
\* Task lists a subclass reports: a task has a line and a type
Warning1 == [line |-> 1, type |-> "Warning"]
Error2 == [line |-> 2, type |-> "Error"]
IssueLists == {<<>>, <<Warning1>>, <<Error2, Warning1>>}

\* qobject_cast<TextEditor::TextEditorWidget *>(editor->widget()) succeeds
TextWidget(editor) == editor # "eBin"

\* the QTextEdit::ExtraSelection updateIssues builds for one task
Selection(issue) ==
    [block |-> issue.line - 1,
     format |-> IF issue.type = "Warning" THEN "C_WARNING" ELSE "C_ERROR"]

Selections(iss) == [i \in 1..Len(iss) |-> Selection(iss[i])]

\* mutant: the selections added to the ones the widget shows
UpdateIssuesAppend(ann, editor, iss) ==
    IF editor = NoEditor \/ ~TextWidget(editor) THEN ann
    ELSE [ann EXCEPT ![editor] = @ \o Selections(iss)]

\* ExtraCompilerPrivate::updateIssues
UpdateIssues(ann, editor, iss) ==
    IF editor = NoEditor THEN ann
    ELSE IF ~TextWidget(editor) THEN ann
    ELSE [ann EXCEPT ![editor] = Selections(iss)]

\* setCompileIssues(issues)
SetCompileIssues(iss) ==
    /\ Live
    /\ issues' = iss
    /\ annotations' = UpdateIssues(annotations, lastEditor, iss)
    /\ emitted' = NoEmit
    /\ lastOp' = Op("setCompileIssues", "", "")
    /\ UNCHANGED <<ctl, contents, compileTime, dirty, lastEditor, timer, initialRun,
                   runVars, subs, sinceEdit, burst, worldVars, deletePending, th,
                   registryVars, deviceVars, sourceFile>>

\* mutant: the old document stays connected
SubsAfterDetachKept(n) == n

\* disconnect(doc, &IDocument::contentsChanged, this, &ExtraCompiler::setDirty)
SubsAfterDetach(n) == 0

\* mutant: every editor that is not null is bound
BoundAfterChangeAny(editor) == editor

\* the editor bound when onEditorChanged(editor) returns
BoundAfterChange(editor) ==
    IF editor # NoEditor /\ DocPath(editor) = Source THEN editor ELSE NoEditor

OnEditorChanged(editor) ==
    /\ Live
    /\ LET flush == lastEditor # NoEditor /\ DetachRuns(dirty, lastEditor)
           bound == BoundAfterChange(editor)
       IN /\ IF flush
             THEN /\ CanRun
                  /\ dirty' = FALSE
                        /\ RunImpl(BytesProvider(doc))
                  /\ lastOp' = Started(Op("editorChanged", editor, doc), lastEditor)
             ELSE /\ UNCHANGED <<dirty, runVars>>
                  /\ lastOp' = Op("editorChanged", editor, "")
          /\ lastEditor' = bound
          /\ annotations' = IF bound # NoEditor
                            THEN UpdateIssues(annotations, bound, issues)
                            ELSE annotations
          /\ subs' = (IF lastEditor # NoEditor THEN SubsAfterDetach(subs) ELSE subs)
                     + (IF bound # NoEditor THEN 1 ELSE 0)
    /\ emitted' = NoEmit
    /\ UNCHANGED <<ctl, contents, compileTime, timer, initialRun, sinceEdit,
                   burst, worldVars, sideVars>>

OnEditorAboutToClose(editor) ==
    /\ Live
    /\ IF lastEditor # editor
       THEN /\ UNCHANGED <<dirty, runVars, lastEditor, subs>>
            /\ lastOp' = Op("editorIgnored", editor, "")
       ELSE /\ IF DetachRuns(dirty, lastEditor)
               THEN /\ CanRun
                    /\ dirty' = FALSE
                            /\ RunImpl(BytesProvider(doc))
                    /\ lastOp' = Started(Op("editorAboutToClose", editor, doc),
                                         lastEditor)
               ELSE /\ UNCHANGED <<dirty, runVars>>
                    /\ lastOp' = Op("editorAboutToClose", editor, "")
            /\ lastEditor' = NoEditor
            /\ subs' = SubsAfterDetach(subs)
    /\ emitted' = NoEmit
    /\ UNCHANGED <<ctl, contents, compileTime, timer, initialRun, sinceEdit,
                   burst, worldVars, annotations, sideVars>>

\* setContent(file, contents) called by a subclass
CallSetContent(file, bytes) ==
    /\ Live
    /\ contents' = SetContentMap(contents, file, bytes)
    /\ emitted' = IF SetContentEmits(contents, file, bytes)
                  THEN [NoEmit EXCEPT ![file] = 1] ELSE NoEmit
    /\ lastOp' = [Op("setContent", file, bytes) EXCEPT
                      !.repeat = /\ lastOp.op = "setContent"
                                 /\ lastOp.arg = file
                                 /\ lastOp.data = bytes]
    /\ UNCHANGED <<ctl, compileTime, dirty, lastEditor, timer, initialRun,
                   runVars, subs, sinceEdit, burst, worldVars, annotations, sideVars>>

\* content(file) called by a client
CallContent(file) ==
    /\ Live
    /\ emitted' = NoEmit
    /\ lastOp' = Op("content", file, Content(contents, file))
    /\ UNCHANGED <<ctl, contents, compileTime, dirty, lastEditor, timer, initialRun,
                   runVars, subs, sinceEdit, burst, worldVars, annotations, sideVars>>

\* ----------------------------------------------------- onTargetsBuilt
\* the orders in which forEachTarget can visit the keys of the QHash
Orders(S) == {o \in [1..Cardinality(S) -> S] : \A i, j \in 1..Cardinality(S) :
                                                  i # j => o[i] # o[j]}

\* mutant: the lambda without the test generateTime > sourceTime
ReconcileAdoptsOlder(f, ct, srcTime) ==
    LET generateTime == IF f.exists THEN f.mtime ELSE NoTime
    IN generateTime # NoTime /\ ~(ct >= generateTime) /\ f.readable

\* mutant: the lambda without "if (d->compileTime >= generateTime) return"
ReconcileAdoptsAnyNewer(f, ct, srcTime) ==
    LET generateTime == IF f.exists THEN f.mtime ELSE NoTime
    IN generateTime # NoTime /\ generateTime > srcTime /\ f.readable

\* the tests of the lambda of onTargetsBuilt: the file exists, is newer than
\* the source and than d->compileTime as it stands, and opens
ReconcileAdopts(f, ct, srcTime) ==
    LET generateTime == IF f.exists THEN f.mtime ELSE NoTime
    IN /\ generateTime # NoTime /\ generateTime > srcTime
       /\ ~(ct >= generateTime)
       /\ f.readable

\* mutant: the bytes stored in d->contents directly, not through setContent
ReconcileOneDirect(st, target, dsk, srcTime) ==
    LET f == dsk[target]
    IN IF ReconcileAdopts(f, st.ct, srcTime)
       THEN [ct |-> f.mtime, c |-> [st.c EXCEPT ![target] = f.data], em |-> st.em]
       ELSE st

\* the lambda of onTargetsBuilt for one target
ReconcileOne(st, target, dsk, srcTime) ==
    LET f == dsk[target]
    IN IF ReconcileAdopts(f, st.ct, srcTime)
       THEN [ct |-> f.mtime,
             c |-> SetContentMap(st.c, target, f.data),
             em |-> IF SetContentEmits(st.c, target, f.data)
                    THEN [st.em EXCEPT ![target] = @ + 1] ELSE st.em]
       ELSE st

RECURSIVE Reconcile(_, _, _, _, _)
Reconcile(st, order, i, dsk, srcTime) ==
    IF i > Len(order) THEN st
    ELSE Reconcile(ReconcileOne(st, order[i], dsk, srcTime), order, i + 1, dsk, srcTime)

\* mutant: the watermark compared with > instead of >=
ReconcileSkippedLater(project, isBuilding, ct, srcTime) ==
    \/ project # "own"
    \/ isBuilding
    \/ (ct # NoTime /\ ct > srcTime)

\* the early returns of onTargetsBuilt
ReconcileSkipped(project, isBuilding, ct, srcTime) ==
    \/ project # "own"
    \/ isBuilding
    \/ (ct # NoTime /\ ct >= srcTime)

\* BuildManager::isBuilding(project) as the handler saw it
BuildState(isBuilding) == IF isBuilding THEN "building" ELSE "idle"

OnTargetsBuilt(project, isBuilding) ==
    /\ Live
    /\ IF ReconcileSkipped(project, isBuilding, compileTime, sourceTime)
       THEN /\ UNCHANGED <<contents, compileTime>>
            /\ emitted' = NoEmit
            /\ lastOp' = Op("targetsBuiltSkipped", project, BuildState(isBuilding))
       ELSE \E order \in Orders(DOMAIN contents) :
               LET st == Reconcile([ct |-> compileTime, c |-> contents, em |-> NoEmit],
                                   order, 1, disk, sourceTime)
               IN /\ contents' = st.c
                  /\ compileTime' = st.ct
                  /\ emitted' = st.em
                  /\ lastOp' = Op("targetsBuilt", project, BuildState(isBuilding))
    /\ UNCHANGED <<ctl, dirty, lastEditor, timer, initialRun, runVars, subs,
                   sinceEdit, burst, worldVars, annotations, sideVars>>

\* ------------------------------------------------- runInThread (worker)
Active(rs) == {r \in DOMAIN rs : rs[r].st = "polling"}

\* up to the poll loop: command check, provider, prepareToRun, process
\* start, the first isCanceled()
BeginOutcomes == {"noCommand", "noContent", "rejected", "startFailed", "started"}

BeginRun(run, outcome) ==
    IF outcome = "started" /\ ~run.cancelled
    THEN [run EXCEPT !.st = "polling", !.input = Evaluated]
    ELSE [run EXCEPT !.st = "finished", !.input = Evaluated]

WorkerBegin(r, outcome) ==
    /\ r \in DOMAIN runs /\ runs[r].st = "queued"
    /\ Cardinality(Active(runs)) < PoolThreads
    /\ runs' = Release([runs EXCEPT ![r] = BeginRun(@, outcome)], watchers)
    /\ emitted' = NoEmit
    /\ lastOp' = [Op("workerBegin", "", "") EXCEPT !.run = r]
    /\ UNCHANGED <<ctl, contents, compileTime, dirty, lastEditor, timer, initialRun,
                   m_watcher, watchers, subs, sinceEdit, burst, worldVars, annotations, sideVars>>

\* leaving the poll loop: the process is done or the future is cancelled
EndRun(run, done) ==
    IF run.cancelled \/ ~done
    THEN [run EXCEPT !.st = "finished"]
    ELSE [run EXCEPT !.st = "finished", !.results = 1]

WorkerPoll(r, done) ==
    /\ r \in DOMAIN runs /\ runs[r].st = "polling"
    /\ done \/ runs[r].cancelled
    /\ runs' = Release([runs EXCEPT ![r] = EndRun(@, done)], watchers)
    /\ emitted' = NoEmit
    /\ lastOp' = [Op("workerEnd", "", "") EXCEPT !.run = r,
                                                 !.results = EndRun(runs[r], done).results]
    /\ UNCHANGED <<ctl, contents, compileTime, dirty, lastEditor, timer, initialRun,
                   m_watcher, watchers, subs, sinceEdit, burst, worldVars, annotations, sideVars>>

\* ------------------------------------- runInThread, statement by statement
Commands == {"empty", "notExecutable", "executable"}

Entered(rs) == {r \in DOMAIN rs : rs[r].st = "polling"}

\* the worker returns: the future is finished
Returned(t) == [t EXCEPT !.pc = "returned"]

\* if (cmd.isEmpty() || !cmd.toFileInfo().isExecutable()) return;
CommandRejected(cmd) == cmd # "executable"

ThreadEnter(r, cmd) ==
    /\ r \in DOMAIN runs /\ runs[r].st = "queued"
    /\ Cardinality(Entered(runs)) < PoolThreads
    /\ LET t == [th[r] EXCEPT !.cmd = cmd]
       IN IF CommandRejected(cmd)
          THEN /\ th' = [th EXCEPT ![r] = Returned(t)]
               /\ runs' = Release([runs EXCEPT ![r].st = "finished"], watchers)
          ELSE /\ th' = [th EXCEPT ![r] = [t EXCEPT !.pc = "provider"]]
               /\ runs' = [runs EXCEPT ![r].st = "polling"]
    /\ emitted' = NoEmit
    /\ lastOp' = [Op("threadEnter", "", "") EXCEPT !.run = r]
    /\ UNCHANGED <<ctl, contents, compileTime, dirty, lastEditor, timer, initialRun,
                   m_watcher, watchers, subs, sinceEdit, burst, worldVars,
                   annotations, issues, deletePending, registryVars, deviceVars, sourceFile>>

\* mutant: the answer of prepareToRun ignored
SourceRejectedWhenNull(content, valid) == content = NullContent

\* if (sourceContents.isNull() || !prepareToRun(sourceContents)) return;
SourceRejected(content, valid) == content = NullContent \/ ~valid

\* prepareToRun is called when the left operand of || is false
Prepared(content, valid) ==
    IF content = NullContent THEN "notAsked"
    ELSE IF valid THEN "accepted" ELSE "refused"

\* provider(): the lambda of run(fileName) reads the file when it is called,
\* the lambda of run(sourceContents) returns the bytes it captured
Provided(input, file) ==
    IF input.kind = "file" THEN file ELSE input.bytes

\* sourceContents = provider(), then the check; valid is what prepareToRun
\* returns if it is called
ThreadProvide(r, valid) ==
    /\ r \in DOMAIN runs /\ th[r].pc = "provider"
    /\ LET content == Provided(runs[r].input, sourceFile)
           t == [th[r] EXCEPT !.content = content, !.prepared = Prepared(content, valid)]
       IN IF SourceRejected(content, valid)
          THEN /\ th' = [th EXCEPT ![r] = Returned(t)]
               /\ runs' = Release([runs EXCEPT ![r].st = "finished",
                                               ![r].input = Evaluated], watchers)
          ELSE /\ th' = [th EXCEPT ![r] = [t EXCEPT !.pc = "start"]]
               /\ runs' = [runs EXCEPT ![r].input = Evaluated]
    /\ emitted' = NoEmit
    /\ lastOp' = [Op("threadProvide",
                      IF lastOp.op = "sourceWritten" THEN "afterWrite" ELSE "",
                      Provided(runs[r].input, sourceFile)) EXCEPT !.run = r]
    /\ UNCHANGED <<ctl, contents, compileTime, dirty, lastEditor, timer, initialRun,
                   m_watcher, watchers, subs, sinceEdit, burst, worldVars,
                   annotations, issues, deletePending, registryVars, deviceVars, sourceFile>>

\* mutant: a start failure handled like a start
AfterStartFailureStarted(t) ==
    Returned([t EXCEPT !.proc = "failedToStart", !.started = @ + 1])

\* if (!process.waitForStarted()) { handleProcessError(&process); return; }
AfterStartFailure(t) ==
    Returned([t EXCEPT !.proc = "failedToStart", !.error = @ + 1])

\* process.start(...) and waitForStarted() returning true
AfterStart(t) == [t EXCEPT !.proc = "running", !.state = "Running", !.pc = "started"]

ThreadStart(r, ok) ==
    /\ r \in DOMAIN runs /\ th[r].pc = "start"
    /\ IF ok
       THEN /\ th' = [th EXCEPT ![r] = AfterStart(@)]
            /\ UNCHANGED runs
       ELSE /\ th' = [th EXCEPT ![r] = AfterStartFailure(@)]
            /\ runs' = Release([runs EXCEPT ![r].st = "finished"], watchers)
    /\ emitted' = NoEmit
    /\ lastOp' = [Op("threadStart", "", "") EXCEPT !.run = r]
    /\ UNCHANGED <<ctl, contents, compileTime, dirty, lastEditor, timer, initialRun,
                   m_watcher, watchers, subs, sinceEdit, burst, worldVars,
                   annotations, issues, deletePending, registryVars, deviceVars, sourceFile>>

\* the external process ends on its own; the QProcess object learns of it in
\* its next waitForFinished
ProcessExits(r) ==
    /\ r \in DOMAIN runs /\ th[r].proc = "running"
    /\ th' = [th EXCEPT ![r].proc = "exited"]
    /\ emitted' = NoEmit
    /\ lastOp' = [Op("processExits", "", "") EXCEPT !.run = r]
    /\ UNCHANGED <<ctl, contents, compileTime, dirty, lastEditor, timer, initialRun,
                   runVars, subs, sinceEdit, burst, worldVars,
                   annotations, issues, deletePending, registryVars, deviceVars, sourceFile>>

\* bool isCanceled = futureInterface.isCanceled();
\* if (!isCanceled) { handleProcessStarted(&process, sourceContents); forever ...
FirstCheck(t, cancelled) ==
    IF cancelled
    THEN [t EXCEPT !.isCanceled = TRUE, !.observed = "beforeStarted", !.pc = "afterLoop"]
    ELSE [t EXCEPT !.started = @ + 1, !.pc = "poll"]

ThreadFirstCheck(r) ==
    /\ r \in DOMAIN runs /\ th[r].pc = "started"
    /\ th' = [th EXCEPT ![r] = FirstCheck(@, runs[r].cancelled)]
    /\ emitted' = NoEmit
    /\ lastOp' = [Op("threadFirstCheck", "", "") EXCEPT !.run = r]
    /\ UNCHANGED <<ctl, contents, compileTime, dirty, lastEditor, timer, initialRun,
                   runVars, subs, sinceEdit, burst, worldVars,
                   annotations, issues, deletePending, registryVars, deviceVars, sourceFile>>

\* mutant: the loop left only when the process is done
LeavesLoopWhenDone(done, isCanceled) == done

\* if (done || isCanceled) break;
LeavesLoop(done, isCanceled) == done \/ isCanceled

\* one turn of the loop: done = process.waitForFinished(200);
\* isCanceled = futureInterface.isCanceled()
Poll(t, cancelled) ==
    LET done == t.proc = "exited"
        seen == IF ~cancelled THEN t.observed
                ELSE IF done THEN "withDone" ELSE "polling"
        u == [t EXCEPT !.state = IF done THEN "NotRunning" ELSE @,
                       !.isCanceled = cancelled, !.observed = seen]
    IN IF LeavesLoop(done, cancelled) THEN [u EXCEPT !.pc = "afterLoop"] ELSE u

ThreadPoll(r) ==
    /\ r \in DOMAIN runs /\ th[r].pc = "poll"
    /\ th' = [th EXCEPT ![r] = Poll(@, runs[r].cancelled)]
    /\ emitted' = NoEmit
    /\ lastOp' = [Op("threadPoll", "", "") EXCEPT !.run = r]
    /\ UNCHANGED <<ctl, contents, compileTime, dirty, lastEditor, timer, initialRun,
                   runVars, subs, sinceEdit, burst, worldVars,
                   annotations, issues, deletePending, registryVars, deviceVars, sourceFile>>

\* mutant: only a process that still runs is killed
KillsWhenRunning(isCanceled, state) == state = "Running"

\* isCanceled |= process.state() == QProcess::Running; if (isCanceled) ...
Kills(isCanceled, state) == isCanceled \/ state = "Running"

\* process.kill(); process.waitForFinished(); return;
AfterKill(t) ==
    Returned([t EXCEPT !.killed = @ + 1, !.state = "NotRunning",
                       !.proc = IF @ = "running" THEN "killed" ELSE @])

\* futureInterface.reportResult(handleProcessFinished(&process));
AfterReport(t) == Returned([t EXCEPT !.finished = @ + 1, !.reported = @ + 1])

\* QFutureInterface::reportResult stores nothing in a cancelled future
ResultCount(t, cancelled) == IF cancelled THEN 0 ELSE t.reported

\* mutant: the worker stores what it reports in the cache
CacheAfterReportStored(c, t) ==
    IF t.reported = 1 THEN [f \in DOMAIN c |-> "a"] ELSE c

\* reportResult hands the hash to the future; d->contents is not touched
CacheAfterReport(c, t) == c

ThreadAfterLoop(r) ==
    /\ r \in DOMAIN runs /\ th[r].pc = "afterLoop"
    /\ LET t == IF Kills(th[r].isCanceled, th[r].state)
                THEN AfterKill(th[r]) ELSE AfterReport(th[r])
       IN /\ th' = [th EXCEPT ![r] = t]
          /\ contents' = CacheAfterReport(contents, t)
          /\ runs' = Release([runs EXCEPT ![r].st = "finished",
                                          ![r].results = ResultCount(t, runs[r].cancelled)],
                             watchers)
    /\ emitted' = NoEmit
    /\ lastOp' = [Op("threadAfterLoop", "", "") EXCEPT !.run = r]
    /\ UNCHANGED <<ctl, compileTime, dirty, lastEditor, timer, initialRun,
                   m_watcher, watchers, subs, sinceEdit, burst, worldVars,
                   annotations, issues, deletePending, registryVars, deviceVars, sourceFile>>

\* the steps of the worker thread of run r
ThreadStep(r) ==
    \/ \E cmd \in Commands : ThreadEnter(r, cmd)
    \/ \E valid \in BOOLEAN : ThreadProvide(r, valid)
    \/ \E ok \in BOOLEAN : ThreadStart(r, ok)
    \/ ThreadFirstCheck(r)
    \/ ThreadPoll(r)
    \/ ThreadAfterLoop(r)

\* ---------------------------------------------------------------- cleanUp
\* mutant: the return on resultCount() == 0 taken before the delete
CleanUpReleasesLate(resultCount) == resultCount # 0

\* delete m_watcher; m_watcher = nullptr, before the result is looked at
CleanUpReleases(resultCount) == TRUE

\* mutant: no return on data.isEmpty()
CleanUpAdoptsAny(resultCount, data) == resultCount # 0

\* the result is installed: resultCount() != 0 and the hash is not empty
CleanUpAdopts(resultCount, data) == resultCount # 0 /\ data # <<>>

\* mutant: no setCompileTime after the installation
CleanUpTimeKept(ct, t) == ct

\* setCompileTime(QDateTime::currentDateTime())
CleanUpTime(ct, t) == t

\* mutant: a completion without output schedules the run again
RetriesAfterCleanUpOnFailure(resultCount, data) ==
    IF resultCount = 0 \/ data = <<>> THEN 1 ELSE 0

\* the runs cleanUp schedules: it returns or installs, nothing else
RetriesAfterCleanUp(resultCount, data) == 0

\* the finished signal of watcher w is delivered to cleanUp; data is
\* future.result() when the tracked future holds one
CleanUp(w, data) ==
    /\ Live
    /\ w \in watchers /\ runs[w].st = "finished"
    /\ IF m_watcher = NoWatcher
       THEN /\ data = <<>>
            /\ UNCHANGED <<contents, compileTime, m_watcher, watchers, initialRun>>
            /\ runs' = [runs EXCEPT ![w].st = "handled"]
            /\ emitted' = NoEmit
            /\ lastOp' = [Op("cleanUp", "", "") EXCEPT !.sender = w]
       ELSE LET t == m_watcher
                count == runs[t].results
                free == CleanUpReleases(count)
                ws == IF free THEN watchers \ {t} ELSE watchers
                adopt == CleanUpAdopts(count, data)
                inst == InstallAll(contents, NoEmit, data, DOMAIN data)
            IN /\ (count = 0 => data = <<>>)
               /\ initialRun' = initialRun + RetriesAfterCleanUp(count, data)
               /\ watchers' = ws
               /\ m_watcher' = IF free THEN NoWatcher ELSE t
               /\ runs' = Release([runs EXCEPT ![w].st = "handled"], ws)
               /\ contents' = IF adopt THEN inst.c ELSE contents
               /\ emitted' = IF adopt THEN inst.em ELSE NoEmit
               /\ compileTime' = IF adopt THEN CleanUpTime(compileTime, now)
                                 ELSE compileTime
               /\ lastOp' = [Op("cleanUp", "", "") EXCEPT !.sender = w, !.run = t,
                                                          !.adopted = adopt,
                                                          !.result = data,
                                                          !.results = count]
    /\ UNCHANGED <<ctl, dirty, lastEditor, timer, subs, sinceEdit,
                   burst, worldVars, annotations, sideVars>>

\* ------------------------------------------------ ~ProcessExtraCompiler
\* if (!m_watcher) return; m_watcher->cancel(); then waitForFinished()
DestroyBegin ==
    /\ Live
    /\ IF m_watcher = NoWatcher
       THEN /\ ctl' = "destroyed"
            /\ UNCHANGED runs
       ELSE /\ ctl' = "dtorWait"
            /\ runs' = [runs EXCEPT ![m_watcher].cancelled = TRUE]
    /\ emitted' = NoEmit
    /\ lastOp' = Op("destroy", "", "")
    /\ UNCHANGED <<contents, compileTime, dirty, lastEditor, timer, initialRun,
                   m_watcher, watchers, subs, sinceEdit, burst, worldVars, annotations, sideVars>>

\* mutant: the instance deleted whatever project is removed
ProjectRemovedDeletesAny(project) == TRUE

\* the projectRemoved handler: if (project == d->project) deleteLater()
ProjectRemovedDeletes(project) == project = "own"

ProjectRemoved(project) ==
    /\ Live
    /\ deletePending' = (deletePending \/ ProjectRemovedDeletes(project))
    /\ emitted' = NoEmit
    /\ lastOp' = Op("projectRemoved", project, "")
    /\ UNCHANGED <<ctl, contents, compileTime, dirty, lastEditor, timer, initialRun,
                   runVars, subs, sinceEdit, burst, worldVars, annotations, issues,
                   th, registryVars, deviceVars, sourceFile>>

\* the event loop delivers the deferred delete: the destructor runs
DeferredDelete == deletePending /\ DestroyBegin

\* the runs the destructor waits for
DtorWaitsFor(rs, w) == {w}

\* waitForFinished() returns, the destructor completes
DestroyEnd ==
    /\ ctl = "dtorWait"
    /\ \A r \in DtorWaitsFor(runs, m_watcher) : runs[r].st \in {"finished", "handled"}
    /\ ctl' = "destroyed"
    /\ emitted' = NoEmit
    /\ lastOp' = Op("destroyed", "", "")
    /\ UNCHANGED <<contents, compileTime, dirty, lastEditor, timer, initialRun,
                   runVars, subs, sinceEdit, burst, worldVars, annotations, sideVars>>

\* ------------------------------------------------------------------ time
Tick ==
    /\ now < MaxMTime + MaxTicks
    /\ now' = now + 1
    /\ timer' = IF timer > 0 THEN timer - 1 ELSE timer
    /\ sinceEdit' = IF sinceEdit < IntervalTicks THEN sinceEdit + 1 ELSE sinceEdit
    /\ emitted' = NoEmit
    /\ lastOp' = Op("tick", "", "")
    /\ UNCHANGED <<ctl, contents, compileTime, dirty, lastEditor, initialRun,
                   runVars, doc, disk, sourceTime, subs, burst,
                   annotations, sideVars>>

\* -------------------------------------------------------- specifications
\* the run machinery: triggers, workers, completion, teardown
Triggers ==
    \/ InitialRunTick
    \/ \E b \in DocBytes : DocEdit(b)
    \/ \E e \in Editors \cup {NoEditor} : OnEditorChanged(e)
    \/ \E e \in Editors : OnEditorAboutToClose(e)

Workers ==
    \/ \E r \in 1..MaxRuns, o \in BeginOutcomes : WorkerBegin(r, o)
    \/ \E r \in 1..MaxRuns, done \in BOOLEAN : WorkerPoll(r, done)

Completion == \E w \in 1..MaxRuns, m \in ResultMaps : CleanUp(w, m)

\* completions that report the empty hash or both targets
FullMaps == {<<>>} \cup [Targets -> OutBytes]
CompletionFull == \E w \in 1..MaxRuns, m \in FullMaps : CleanUp(w, m)

Teardown == DestroyBegin \/ DestroyEnd

Next == Triggers \/ Workers \/ CompletionFull \/ Teardown

\* no step of Next reads the disk: nothing is generated yet, so that the
\* deferred initial run exists
InitRuns == Init /\ sourceTime = MaxMTime /\ disk = [t \in Targets |-> NoFile]

Spec == InitRuns /\ [][Next]_vars

\* the content cache and everything that writes it
NextCache ==
    \/ \E f \in Paths, b \in Bytes : CallSetContent(f, b)
    \/ \E p \in Projects, building \in BOOLEAN : OnTargetsBuilt(p, building)
    \/ InitialRunTick
    \/ Workers
    \/ Completion
    \/ Tick

SpecCache == Init /\ [][NextCache]_vars

\* the editor bridge and its debounce timer
NextTimer ==
    \/ \E b \in DocBytes : DocEdit(b)
    \/ TimerTimeout
    \/ \E e \in Editors \cup {NoEditor} : OnEditorChanged(e)
    \/ \E e \in Editors : OnEditorAboutToClose(e)
    \/ Tick

SpecTimer == Init /\ [][NextTimer]_vars

\* time passes while the timer runs; the clock reading stops at the horizon
\* of the model, the timer goes on counting
TimerTick ==
    /\ timer > 0
    /\ timer' = timer - 1
    /\ now' = IF now < MaxMTime + MaxTicks THEN now + 1 ELSE now
    /\ sinceEdit' = IF sinceEdit < IntervalTicks THEN sinceEdit + 1 ELSE sinceEdit
    /\ emitted' = NoEmit
    /\ lastOp' = Op("tick", "", "")
    /\ UNCHANGED <<ctl, contents, compileTime, dirty, lastEditor, initialRun,
                   runVars, doc, disk, sourceTime, subs, burst,
                   annotations, sideVars>>

\* the editor bridge with a timer that is always served: the event loop
\* delivers a timeout that is due, and time does not stop
NextDebounce ==
    \/ \E b \in DocBytes : DocEdit(b)
    \/ TimerTimeout
    \/ \E e \in {"eSrc", NoEditor} : OnEditorChanged(e)
    \/ OnEditorAboutToClose("eSrc")
    \/ TimerTick
    \/ Workers
    \/ Teardown

SpecDebounce ==
    InitRuns /\ [][NextDebounce]_vars /\ WF_vars(TimerTick) /\ WF_vars(TimerTimeout)

\* every trigger of a run, the workers and their completions
NextRetry ==
    \/ InitialRunTick
    \/ DocEdit("s2")
    \/ TimerTimeout
    \/ \E e \in {"eSrc", NoEditor} : OnEditorChanged(e)
    \/ OnEditorAboutToClose("eSrc")
    \/ OnTargetsBuilt("own", FALSE)
    \/ Tick
    \/ Workers
    \/ \E w \in 1..MaxRuns, m \in {<<>>, [t \in Targets |-> "a"]} : CleanUp(w, m)

SpecRetry == InitRuns /\ [][NextRetry]_vars

\* the source file is written, removed or made unreadable on disk
SourceWritten(bytes) ==
    /\ sourceFile # bytes
    /\ sourceFile' = bytes
    /\ emitted' = NoEmit
    /\ lastOp' = Op("sourceWritten", "", bytes)
    /\ UNCHANGED <<ctl, contents, compileTime, dirty, lastEditor, timer, initialRun,
                   runVars, subs, sinceEdit, burst, worldVars, annotations, issues,
                   deletePending, th, registryVars, deviceVars>>

\* one worker execution after the other in full detail, with completion and
\* teardown; the worker threads keep running
NextWorker ==
    \/ InitialRunTick
    \/ \E r \in 1..MaxRuns : ThreadStep(r)
    \/ \E r \in 1..MaxRuns : ProcessExits(r)
    \/ \E b \in SourceContents : SourceWritten(b)
    \/ CompletionFull
    \/ DestroyBegin
    \/ DestroyEnd

SpecWorker ==
    Init /\ [][NextWorker]_vars /\ \A r \in 1..MaxRuns : WF_vars(ThreadStep(r))


\* construction and what follows it with nobody else calling in: the
\* deferred run, which the event loop delivers as long as the instance
\* lives, and reads of the cache
NextCtor ==
    \/ InitialRunTick
    \/ \E f \in Paths : CallContent(f)
    \/ Tick

\* the build system, or anybody else, writes a target file; its time is the
\* current time
BuildWrites(target, bytes, readable) ==
    /\ disk' = [disk EXCEPT ![target] = File(now, bytes, readable)]
    /\ emitted' = NoEmit
    /\ lastOp' = Op("buildWrites", target, bytes)
    /\ UNCHANGED <<ctl, contents, compileTime, dirty, lastEditor, timer, initialRun,
                   runVars, subs, sinceEdit, burst, doc, sourceTime, now,
                   annotations, sideVars>>

\* the source file is saved
SourceSaved ==
    /\ sourceTime # now
    /\ sourceTime' = now
    /\ emitted' = NoEmit
    /\ lastOp' = Op("sourceSaved", "", "")
    /\ UNCHANGED <<ctl, contents, compileTime, dirty, lastEditor, timer, initialRun,
                   runVars, subs, sinceEdit, burst, doc, disk, now,
                   annotations, sideVars>>

\* runs against the file and against editor snapshots while the source file
\* changes on disk; the workers are followed up to the source check, with a
\* command that can be run and a prepareToRun that accepts
NextProvider ==
    \/ InitialRunTick
    \/ \E b \in DocBytes : DocEdit(b)
    \/ \E e \in {"eSrc", NoEditor} : OnEditorChanged(e)
    \/ \E b \in SourceContents : SourceWritten(b)
    \/ \E r \in 1..MaxRuns : ThreadEnter(r, "executable")
    \/ \E r \in 1..MaxRuns : ThreadProvide(r, TRUE)

SpecProvider == InitRuns /\ [][NextProvider]_vars

\* what the build generates differs from what was on disk at construction
BuildBytes == "b"

\* the build bridge: builds write targets, the source is saved, and
\* buildStateChanged arrives
NextBuild ==
    \/ \E t \in Targets, r \in BOOLEAN : BuildWrites(t, BuildBytes, r)
    \/ SourceSaved
    \/ \E p \in Projects, building \in BOOLEAN : OnTargetsBuilt(p, building)
    \/ InitialRunTick
    \/ Tick

SpecBuild == Init /\ [][NextBuild]_vars

\* the build bridge of an instance whose source is open in an editor:
\* edits and rebinding make the flag and the tracked run vary while targets
\* are written and buildStateChanged arrives
NextReconcile ==
    \/ \E t \in Targets, r \in BOOLEAN : BuildWrites(t, BuildBytes, r)
    \/ \E p \in Projects, building \in BOOLEAN : OnTargetsBuilt(p, building)
    \/ OnEditorChanged("eSrc")
    \/ DocEdit("s2")

SpecReconcile == Init /\ [][NextReconcile]_vars

\* runs started by the initial tick and by detaching the editor, the
\* workers, and completions that the event loop always delivers
NextConverge ==
    \/ InitialRunTick
    \/ DocEdit("s2")
    \/ \E e \in {"eSrc", NoEditor} : OnEditorChanged(e)
    \/ Workers
    \/ CompletionFull
    \/ Teardown

SpecConverge == InitRuns /\ [][NextConverge]_vars /\ WF_vars(CompletionFull)

\* ------------------------------------- ExtraCompilerFactory and observer
RemoveAll(list, x) == SelectSeq(list, LAMBDA y : y # x)

RECURSIVE RemoveOne(_, _)
RemoveOne(list, x) ==
    IF list = <<>> THEN <<>>
    ELSE IF Head(list) = x THEN Tail(list)
    ELSE <<Head(list)>> \o RemoveOne(Tail(list), x)

\* mutant: the factory put in front of the list
FactoriesAfterCtorFront(list, f) == <<f>> \o list

\* ExtraCompilerFactory::ExtraCompilerFactory: factories->append(this)
FactoriesAfterCtor(list, f) == Append(list, f)

\* ~ExtraCompilerFactory: factories->removeAll(this)
FactoriesAfterDtor(list, f) == RemoveAll(list, f)

\* ExtraCompilerFactoryObserver(): observers->push_back(this)
ObserversAfterCtor(list, o) == Append(list, o)

\* ~ExtraCompilerFactoryObserver: observers->removeOne(this)
ObserversAfterDtor(list, o) == RemoveOne(list, o)

\* mutant: the observers visited from the back
AnnounceCallsReversed(obs, project, source, targets) ==
    [i \in 1..Len(obs) |-> [observer |-> obs[Len(obs) + 1 - i], project |-> project,
                            source |-> source, targets |-> targets]]

\* annouceCreation: observer->newExtraCompiler(project, source, targets) for
\* every element of *observers
AnnounceCalls(obs, project, source, targets) ==
    [i \in 1..Len(obs) |-> [observer |-> obs[i], project |-> project,
                            source |-> source, targets |-> targets]]

NextStamp == built + 1

ConstructFactory(f) ==
    /\ born[f] = 0 /\ built < MaxObjects
    /\ factories' = FactoriesAfterCtor(factories, f)
    /\ born' = [born EXCEPT ![f] = NextStamp]
    /\ built' = NextStamp
    /\ lastOp' = Op("factoryCtor", f, "")
    /\ UNCHANGED <<observers, notified>>
    /\ UNCHANGED <<instanceVars, deviceVars>>

DestroyFactory(f) ==
    /\ born[f] # 0
    /\ factories' = FactoriesAfterDtor(factories, f)
    /\ born' = [born EXCEPT ![f] = 0]
    /\ lastOp' = Op("factoryDtor", f, "")
    /\ UNCHANGED <<observers, notified, built>>
    /\ UNCHANGED <<instanceVars, deviceVars>>

ConstructObserver(o) ==
    /\ born[o] = 0 /\ built < MaxObjects
    /\ observers' = ObserversAfterCtor(observers, o)
    /\ born' = [born EXCEPT ![o] = NextStamp]
    /\ built' = NextStamp
    /\ lastOp' = Op("observerCtor", o, "")
    /\ UNCHANGED <<factories, notified>>
    /\ UNCHANGED <<instanceVars, deviceVars>>

DestroyObserver(o) ==
    /\ born[o] # 0
    /\ observers' = ObserversAfterDtor(observers, o)
    /\ born' = [born EXCEPT ![o] = 0]
    /\ lastOp' = Op("observerDtor", o, "")
    /\ UNCHANGED <<factories, notified, built>>
    /\ UNCHANGED <<instanceVars, deviceVars>>

\* ExtraCompilerFactory::annouceCreation(project, source, targets)
AnnounceCreation(project, source, targets) ==
    /\ notified' = AnnounceCalls(observers, project, source, targets)
    /\ lastOp' = [Op("annouceCreation", project, source) EXCEPT !.result = targets]
    /\ UNCHANGED <<factories, observers, born, built>>
    /\ UNCHANGED <<instanceVars, deviceVars>>

\* ExtraCompilerFactory::extraCompilerFactories()
CallExtraCompilerFactories ==
    /\ lastOp' = [Op("extraCompilerFactories", "", "") EXCEPT !.result = factories]
    /\ UNCHANGED <<factories, observers, notified, born, built>>
    /\ UNCHANGED <<instanceVars, deviceVars>>

AnnouncedSources == {"src", "src2"}
AnnouncedTargets == {<<"t1">>, <<"t1", "t2">>}

NextRegistry ==
    \/ \E f \in FactoryIds : ConstructFactory(f)
    \/ \E f \in FactoryIds : DestroyFactory(f)
    \/ \E o \in ObserverIds : ConstructObserver(o)
    \/ \E o \in ObserverIds : DestroyObserver(o)
    \/ \E p \in Projects, src \in AnnouncedSources, ts \in AnnouncedTargets :
          AnnounceCreation(p, src, ts)
    \/ CallExtraCompilerFactories

\* one instance, nothing on disk
InitFixed ==
    /\ InitInstance({NoFile}, {1})
    /\ InitRegistry
    /\ InitNoDevice

SpecRegistry == InitFixed /\ [][NextRegistry]_vars

\* ---------------------------------------------------------------- IDevice
\* program constants of idevice.cpp
DefaultTimeout == 10
DefaultSshPort == 22
ManuallyAdded == 0           \* IDevice::Origin
AutoDetected == 1
Hardware == 0                \* IDevice::MachineType, DefaultMachineType
Emulator == 1
AuthenticationTypeAll == 0   \* QSsh::SshConnectionParameters::AuthenticationType
AuthenticationTypeSpecificKey == 1
SshHostKeyCheckingNone == 0
SshHostKeyCheckingStrict == 1
DefaultPortsSpec == "10000-10100"
InvalidId == ""              \* Utils::Id(): !isValid()
NoValue == "QVariant()"      \* the invalid QVariant map.value() returns for a missing key

\* the UUIDs QUuid::createUuid() can return
Uuids == {"uuid1", "uuid2"}

\* the serialized attributes of a device
Device(id, type, origin, ports, auth, port, version, text, enum, extra) ==
    [valid |-> TRUE, type |-> type, id |-> id, origin |-> origin, displayName |-> text,
     machineType |-> enum, host |-> text, sshPort |-> port, userName |-> text,
     authenticationType |-> auth, privateKeyFile |-> text,
     timeout |-> IF enum = 0 THEN DefaultTimeout ELSE 0,
     hostKeyCheckingMode |-> enum, freePorts |-> ports, version |-> version,
     debugServerPath |-> text, qmlsceneCommand |-> text, extraData |-> extra]

\* a PortList is held as its ranges; the default-constructed one is empty
PortLists == {<<>>, <<<<22, 22>>>>, <<<<10000, 10100>>>>}

Devices ==
    {Device(id, type, origin, ports, auth, port, version, text, enum, extra) :
        id \in {InvalidId, "dev1"}, type \in {"Desktop", "GenericLinux"},
        origin \in {ManuallyAdded, AutoDetected}, ports \in PortLists,
        auth \in {AuthenticationTypeAll, AuthenticationTypeSpecificKey},
        port \in {DefaultSshPort, 2222}, version \in {0, 1}, text \in {"", "x"},
        enum \in {0, 1}, extra \in {<<>>, [k \in {"kind"} |-> "v"]}}

\* Utils::PortList::toString and fromString on the specs the model uses
PortListToString(ports) ==
    IF ports = <<>> THEN ""
    ELSE IF ports = <<<<22, 22>>>> THEN "22" ELSE DefaultPortsSpec

PortListFromString(spec) ==
    IF spec = "" THEN <<>>
    ELSE IF spec = "22" THEN <<<<22, 22>>>> ELSE <<<<10000, 10100>>>>

\* IDevice::toMap
ToMap(dev) ==
    [Name |-> dev.displayName, OsType |-> dev.type, InternalId |-> dev.id,
     Origin |-> dev.origin, Type |-> dev.machineType, Host |-> dev.host,
     SshPort |-> dev.sshPort, Uname |-> dev.userName,
     Authentication |-> dev.authenticationType, KeyFile |-> dev.privateKeyFile,
     Timeout |-> dev.timeout, HostKeyChecking |-> dev.hostKeyCheckingMode,
     FreePortsSpec |-> PortListToString(dev.freePorts), Version |-> dev.version,
     DebugServerKey |-> dev.debugServerPath, QmlsceneKey |-> dev.qmlsceneCommand,
     ExtraData |-> dev.extraData]

\* map.value(key, defaultValue)
Value(map, key, defaultValue) == IF key \in DOMAIN map THEN map[key] ELSE defaultValue

\* QVariant::toString and toInt of what the maps hold: a string, the invalid
\* variant of a missing key, an int
VariantToString(v) == IF v = NoValue THEN "" ELSE v
VariantToInt(v) == v

\* the id fromMap restores: a new one when the stored id is not valid
RestoredId(stored, uuid) == IF stored = InvalidId THEN uuid ELSE stored

\* the port spec fromMap parses: the default range when the stored one is empty
RestoredPortsSpec(spec) == IF spec = "" THEN DefaultPortsSpec ELSE spec

\* the authentication type fromMap restores from the stored integer
RestoredAuth(stored) ==
    IF stored > AuthenticationTypeSpecificKey THEN AuthenticationTypeAll ELSE stored

\* IDevice::fromMap on a map; uuid is what newId() returns if it is called
FromMap(map, uuid) ==
    [valid |-> TRUE,
     type |-> VariantToString(Value(map, "OsType", NoValue)),
     displayName |-> VariantToString(Value(map, "Name", NoValue)),
     id |-> RestoredId(VariantToString(Value(map, "InternalId", NoValue)), uuid),
     origin |-> VariantToInt(Value(map, "Origin", ManuallyAdded)),
     host |-> VariantToString(Value(map, "Host", NoValue)),
     sshPort |-> VariantToInt(Value(map, "SshPort", DefaultSshPort)),
     userName |-> VariantToString(Value(map, "Uname", NoValue)),
     authenticationType |-> RestoredAuth(VariantToInt(Value(map, "Authentication",
                                                     AuthenticationTypeAll))),
     privateKeyFile |-> VariantToString(Value(map, "KeyFile", "~/.ssh/id_rsa")),
     timeout |-> VariantToInt(Value(map, "Timeout", DefaultTimeout)),
     hostKeyCheckingMode |-> VariantToInt(Value(map, "HostKeyChecking", SshHostKeyCheckingNone)),
     freePorts |-> PortListFromString(
                      RestoredPortsSpec(VariantToString(Value(map, "FreePortsSpec", NoValue)))),
     machineType |-> VariantToInt(Value(map, "Type", Hardware)),
     version |-> VariantToInt(Value(map, "Version", 0)),
     debugServerPath |-> VariantToString(Value(map, "DebugServerKey", NoValue)),
     qmlsceneCommand |-> VariantToString(Value(map, "QmlsceneKey", NoValue)),
     extraData |-> Value(map, "ExtraData", <<>>)]

\* IDeviceFactory::find(d->type) finds a factory
HasFactory(type) == type # InvalidId

\* IDevice::clone
Clone(dev, uuid) == IF HasFactory(dev.type) THEN FromMap(ToMap(dev), uuid) ELSE NoDevice

DeviceToMap ==
    /\ deviceMap' = ToMap(device)
    /\ lastOp' = Op("toMap", "", "")
    /\ UNCHANGED <<device, restored, instanceVars, registryVars>>

DeviceFromMap(uuid) ==
    /\ deviceMap # NoMap
    /\ restored' = FromMap(deviceMap, uuid)
    /\ lastOp' = Op("fromMap", "", "")
    /\ UNCHANGED <<device, deviceMap, instanceVars, registryVars>>

DeviceClone(uuid) ==
    /\ restored' = Clone(device, uuid)
    /\ lastOp' = Op("clone", "", "")
    /\ UNCHANGED <<device, deviceMap, instanceVars, registryVars>>

NextDevice ==
    \/ DeviceToMap
    \/ \E u \in Uuids : DeviceFromMap(u)
    \/ \E u \in Uuids : DeviceClone(u)

InitDevice ==
    /\ InitInstance({NoFile}, {1})
    /\ InitRegistry
    /\ device \in Devices
    /\ deviceMap = NoMap
    /\ restored = NoDevice

SpecDevice == InitDevice /\ [][NextDevice]_vars

\* the life of an instance: its runs, the removal of projects, the
\* deferred delete
NextLifecycle ==
    \/ \E p \in Projects : ProjectRemoved(p)
    \/ DeferredDelete
    \/ DestroyEnd
    \/ InitialRunTick
    \/ Workers
    \/ CompletionFull

SpecLifecycle == Init /\ [][NextLifecycle]_vars

\* the editor bridge and the issues a subclass reports
NextIssues ==
    \/ \E e \in AllEditors \cup {NoEditor} : OnEditorChanged(e)
    \/ \E e \in AllEditors : OnEditorAboutToClose(e)
    \/ \E i \in IssueLists : SetCompileIssues(i)

SpecIssues == Init /\ [][NextIssues]_vars

SpecCtor == InitCtor /\ [][NextCtor]_vars /\ WF_vars(InitialRunTick)

\* ================================================================ claims
Latest == Len(runs)
DetachOps == {"editorChanged", "editorAboutToClose"}

\* C1: when a run is started while an earlier one is outstanding, only the
\* later run's completion can be adopted: a completion whose result is
\* installed (cache and watermark) is that of the most recently started run,
\* no superseded run has a watcher left to deliver its completion, and the
\* most recently started run stays tracked until its completion is handled.
C1_LaterRunWins ==
    /\ (lastOp.op = "cleanUp" /\ lastOp.adopted) => lastOp.run = Latest
    /\ \A r \in 1..Latest : r < Latest => r \notin watchers
    /\ (Latest > 0 /\ runs[Latest].st # "handled") => m_watcher = Latest

\* C1 witness: the earlier run reports its result after the later run's
\* completion has been handled (out-of-order completion)
C1_Witness ==
    /\ lastOp.op = "workerEnd" /\ lastOp.run = 1 /\ lastOp.results = 1
    /\ Latest = 2 /\ runs[2].st = "handled"

\* C2: at most one execution of runInThread of the instance is active on the
\* worker pool in every reachable state.
C2_AtMostOneInFlight == Cardinality(Active(runs)) <= 1

\* C3: the instance holds at most one watcher, the tracked one; starting a
\* run leaves exactly the new watcher; cleanUp handles the run of the watcher
\* that signalled, leaves no watcher tracked, and no handled run has a
\* watcher that could signal again.
C3_OneWatcher ==
    /\ Cardinality(watchers) <= 1
    /\ watchers = IF m_watcher = NoWatcher THEN {} ELSE {m_watcher}
    /\ lastOp.started # 0 => (m_watcher = lastOp.started /\ watchers = {lastOp.started})
    /\ lastOp.op = "cleanUp" =>
          (m_watcher = NoWatcher /\ watchers = {} /\ lastOp.run = lastOp.sender)
    /\ \A r \in 1..Latest : runs[r].st = "handled" => r \notin watchers

\* C3 witness: cleanUp for the second run, whose start discarded the watcher
\* of a first run that was never handled
C3_Witness ==
    /\ lastOp.op = "cleanUp" /\ lastOp.run = 2
    /\ runs[1].st \in {"polling", "finished"}

\* C4: once the destructor has returned, no runInThread execution of the
\* instance, tracked or superseded, is queued or running.
C4_NoWorkerAfterTeardown ==
    ctl = "destroyed" => \A r \in 1..Latest : runs[r].st \notin {"queued", "polling"}

\* C5: a completion handled with no result or with an empty hash leaves the
\* cache and the watermark unchanged and emits no contentsChanged.
C5_FailSoft ==
    [][(lastOp'.op = "cleanUp" /\ (lastOp'.results = 0 \/ lastOp'.result = <<>>))
         => (contents' = contents /\ compileTime' = compileTime /\ emitted' = NoEmit)]_vars

\* C5 witness: a run that reported an empty hash was handled while the cache
\* held content and the watermark differed from the current time
C5_Witness ==
    /\ lastOp.op = "cleanUp" /\ lastOp.results = 1 /\ lastOp.result = <<>>
    /\ compileTime # now
    /\ \E t \in Targets : contents[t] # ""

\* C6: a completion with a non-empty hash installs every returned declared
\* target through setContent (one signal per target whose bytes differ), keeps
\* every other target, and sets the watermark to the current time.
C6_InstallAll ==
    [][(lastOp'.op = "cleanUp" /\ lastOp'.results # 0 /\ lastOp'.result # <<>>)
         => LET data == lastOp'.result
            IN /\ DOMAIN contents' = DOMAIN contents
               /\ \A t \in DOMAIN contents :
                     contents'[t] = IF t \in DOMAIN data THEN data[t] ELSE contents[t]
               /\ \A p \in Paths :
                     emitted'[p] = IF /\ p \in DOMAIN contents
                                      /\ p \in DOMAIN data
                                      /\ contents[p] # data[p]
                                   THEN 1 ELSE 0
               /\ compileTime' = now]_vars

\* C6 witness: a hash with one declared and one undeclared path was installed;
\* the declared target changed, the other target kept its bytes from disk
C6_Witness ==
    /\ lastOp.op = "cleanUp" /\ lastOp.adopted
    /\ DOMAIN lastOp.result = {"t1", "x"}
    /\ emitted["t1"] = 1
    /\ contents["t2"] = "a"
    /\ compileTime = now

\* C7: setContent on a declared target stores the bytes and emits exactly one
\* contentsChanged for it iff the bytes differ from the cached ones; a second
\* call in a row with the same bytes emits nothing.
C7_SetContent ==
    [][(lastOp'.op = "setContent" /\ lastOp'.arg \in DOMAIN contents)
         => LET f == lastOp'.arg
                b == lastOp'.data
            IN /\ contents' = [contents EXCEPT ![f] = b]
               /\ emitted' = [NoEmit EXCEPT ![f] = IF contents[f] # b THEN 1 ELSE 0]
               /\ lastOp'.repeat => (emitted'[f] = 0 /\ emitted[f] + emitted'[f] <= 1)]_vars

\* C7 witness: the same setContent call a second time in a row
C7_Witness ==
    /\ lastOp.op = "setContent" /\ lastOp.repeat
    /\ lastOp.arg = "t1" /\ lastOp.data = "b"
    /\ contents["t1"] = "b"

\* C8: the keys of the cache are always exactly the constructor's targets, and
\* setContent for an undeclared path changes nothing and emits nothing.
C8_KeysFixed ==
    /\ [](DOMAIN contents = Targets)
    /\ [][(lastOp'.op = "setContent" /\ lastOp'.arg \notin Targets)
            => (contents' = contents /\ emitted' = NoEmit /\ compileTime' = compileTime)]_vars

\* C8 witness: setContent was called with an undeclared path
C8_Witness ==
    /\ lastOp.op = "setContent" /\ lastOp.arg = "x" /\ lastOp.data = "b"
    /\ \E t \in Targets : contents[t] # ""

\* C9: a detach (editor changed or bound editor about to close) with an editor
\* bound and the dirty flag set starts a run on the outgoing document's
\* contents while that editor is still bound, and clears the flag; any other
\* detach starts no run.
C9_DetachFlush ==
    [][lastOp'.op \in DetachOps
         => IF lastEditor # NoEditor /\ dirty
            THEN /\ Len(runs') = Len(runs) + 1
                 /\ lastOp'.started = Len(runs')
                 /\ runs'[Len(runs')] = NewRun(BytesProvider(doc))
                 /\ m_watcher' = Len(runs')
                 /\ lastOp'.boundAtRun = lastEditor
                 /\ ~dirty'
            ELSE /\ Len(runs') = Len(runs)
                 /\ lastOp'.started = 0
                 /\ dirty' = dirty]_vars

\* C9 witness: the bound editor closed with an edit pending; the run holds
\* the edited buffer
C9_Witness ==
    /\ lastOp.op = "editorAboutToClose" /\ lastOp.started # 0
    /\ lastEditor = NoEditor /\ ~dirty
    /\ runs[lastOp.started].input = BytesProvider("s2")

\* C10: every setDirty sets the flag and restarts the timer at the full
\* interval; a run started by the timer comes no earlier than TimerInterval ms
\* after the latest setDirty; while the flag is set exactly one timeout is
\* pending, due one interval after the latest setDirty, and the timeout that
\* takes it clears the flag and leaves the timer stopped.
C10_Debounce ==
    /\ (lastOp.op = "timeout" /\ lastOp.started # 0)
          => sinceEdit * 1000 >= TimerInterval * TicksPerSecond
    /\ lastOp.op = "setDirty" => (dirty /\ timer = IntervalTicks /\ sinceEdit = 0)
    /\ dirty => (lastEditor # NoEditor /\ timer = IntervalTicks - sinceEdit)
    /\ lastOp.op = "timeout" => (~dirty /\ timer = TimerOff)

\* C10 witness: two edits half an interval apart, and the run started by the
\* timer one and a half intervals after the first
C10_Witness ==
    /\ lastOp.op = "timeout" /\ lastOp.started = 1
    /\ burst = 2
    /\ now - MaxMTime = IntervalTicks + IntervalTicks \div 2

\* C11: a timer expiry starts a run iff the dirty flag is set and an editor is
\* bound at that moment; the run then holds the buffer contents of the moment
\* of expiry and the flag is cleared; an expiry that comes right after a
\* detach (a flush, which cleared the flag, or an unbind) starts no run.
C11_TimerExpiry ==
    [][lastOp'.op = "timeout"
         => /\ IF dirty /\ lastEditor # NoEditor
               THEN /\ Len(runs') = Len(runs) + 1
                    /\ lastOp'.started = Len(runs')
                    /\ runs'[Len(runs')] = NewRun(BytesProvider(doc))
                    /\ ~dirty'
               ELSE /\ runs' = runs
                    /\ lastOp'.started = 0
                    /\ dirty' = dirty
            /\ lastOp.op \in DetachOps => lastOp'.started = 0]_vars

\* C11 witness: the timer expired with the source editor bound after a detach
\* flush had taken the edit: the flush's run is the only one
C11_Witness ==
    /\ lastOp.op = "timeout" /\ lastOp.started = 0
    /\ lastEditor = "eSrc" /\ ~dirty
    /\ Len(runs) = 1 /\ runs[1].input = BytesProvider("s2")

\* what the constructor found on disk
Missing == {t \in Targets : ~disk[t].exists}
Older == {t \in Targets : disk[t].exists /\ disk[t].mtime < sourceTime}
Present == Targets \ Missing
AfterCtor == lastOp.op = "ctor"

\* C12: when every declared target exists with a modification time not
\* before the source's, the constructed instance is not dirty, has no run
\* scheduled, and no run is ever started while nobody else calls in.
C12_FreshStart ==
    (Missing = {} /\ Older = {}) => (~dirty /\ initialRun = 0 /\ runs = <<>>)

\* C12 witness: time has passed after a construction that found one target
\* exactly as old as the source and the other newer
C12_Witness ==
    /\ lastOp.op = "tick"
    /\ sourceTime = 1 /\ disk["t1"].exists /\ disk["t1"].mtime = 1
    /\ disk["t2"].exists /\ disk["t2"].mtime = 2
    /\ runs = <<>> /\ initialRun = 0

\* C13: when a target is missing or older than the source, construction
\* leaves exactly one deferred run pending and none started, however many
\* targets are stale; the pending run is started by a later event-loop step,
\* on the source file, and it is the only one.
C13_OneDeferredRun ==
    /\ []((AfterCtor /\ Missing \cup Older # {}) => (initialRun = 1 /\ runs = <<>>))
    /\ [](Missing \cup Older # {} => initialRun + Len(runs) = 1)
    /\ ((AfterCtor /\ Missing \cup Older # {})
           ~> (lastOp.op = "initialRun" /\ lastOp.started = 1))
    /\ [][lastOp'.op = "initialRun"
            => (/\ lastOp.op # "initialRun"
                /\ runs' = <<NewRun(FileProvider)>>
                /\ initialRun' = 0)]_vars

\* C13 witness: the deferred run was started after a construction that found
\* one target missing and the other older than the source
C13_Witness ==
    /\ lastOp.op = "initialRun" /\ lastOp.started = 1
    /\ Cardinality(Missing) = 1 /\ Cardinality(Older) = 1
    /\ runs = <<NewRun(FileProvider)>> /\ initialRun = 0

\* C14 as stated: constructed with a source of modification time T and a
\* target missing, the instance is dirty when construction has completed and
\* a run against the source is scheduled.
C14_DirtyAfterCtor ==
    (AfterCtor /\ sourceTime # NoTime /\ Missing # {}) => (dirty /\ initialRun = 1)

\* C14 amended: constructed with a source of modification time T and a target
\* missing, the flag set by the scan has been cleared again when construction
\* has completed, and one run against the source is scheduled, none started.
C14_CleanAfterCtor ==
    (AfterCtor /\ sourceTime # NoTime /\ Missing # {})
       => (~dirty /\ initialRun = 1 /\ runs = <<>>)

\* C14 witness: construction has completed with exactly one target missing
\* and the other up to date
C14_Witness ==
    /\ AfterCtor /\ sourceTime = 1
    /\ Missing = {"t2"} /\ Older = {}
    /\ ~dirty /\ initialRun = 1

\* C15: after construction the watermark is the earliest modification time
\* of the declared targets that exist, older-than-source and unreadable ones
\* included, and it is invalid when none exists.
C15_Watermark ==
    AfterCtor =>
       IF Present = {} THEN compileTime = NoTime
       ELSE /\ \E t \in Present : compileTime = disk[t].mtime
            /\ \A t \in Present : compileTime <= disk[t].mtime

\* C15 witness: both targets exist, the earlier one is older than the source
\* and the watermark is its time
C15_Witness ==
    /\ AfterCtor /\ sourceTime = 2
    /\ disk["t1"].exists /\ disk["t1"].mtime = 2
    /\ disk["t2"].exists /\ disk["t2"].mtime = 1
    /\ compileTime = 1

\* C16: after construction content(target) is the bytes on disk of every
\* declared target that exists and is readable, older-than-source ones
\* included, and empty for every missing one; content(path) of an undeclared
\* path is empty.
C16_ContentAfterCtor ==
    /\ \A t \in Targets :
          /\ (disk[t].exists /\ disk[t].readable) => Content(contents, t) = disk[t].data
          /\ ~disk[t].exists => Content(contents, t) = ""
    /\ \A p \in Paths \ Targets : Content(contents, p) = ""
    /\ lastOp.op = "content" =>
          LET f == lastOp.arg
          IN /\ lastOp.data = Content(contents, f)
             /\ f \notin Targets => lastOp.data = ""

\* C16 witness: content() was asked for a target older than the source and
\* returned its bytes, while the other target is missing
C16_Witness ==
    /\ lastOp.op = "content" /\ lastOp.arg = "t1" /\ lastOp.data = "b"
    /\ disk["t1"].mtime < sourceTime
    /\ ~disk["t2"].exists /\ contents["t2"] = ""

\* a buildStateChanged notification was handled
BuiltOps == {"targetsBuilt", "targetsBuiltSkipped"}

\* C17 as stated: in a reconciliation entered with the watermark earlier than
\* the source's time, the targets are visited in some order; a visited target
\* whose file is later than the source and later than the watermark W is
\* adopted into the cache and W becomes its time, any other target leaves the
\* cache entry and W as they are.
C17_AdoptNewer ==
    [][(/\ lastOp'.op \in BuiltOps /\ lastOp'.arg = "own" /\ lastOp'.data = "idle"
        /\ compileTime < sourceTime)
         => \E order \in Orders(Targets) :
               LET n == Cardinality(Targets)
                   Newer(t, w) == /\ disk[t].exists
                                  /\ disk[t].mtime > sourceTime
                                  /\ disk[t].mtime > w
                   RECURSIVE W(_)
                   W(i) == IF i = 1 THEN compileTime
                           ELSE IF Newer(order[i - 1], W(i - 1))
                                THEN disk[order[i - 1]].mtime ELSE W(i - 1)
               IN /\ \A i \in 1..n :
                        contents'[order[i]] = IF Newer(order[i], W(i))
                                              THEN disk[order[i]].data
                                              ELSE contents[order[i]]
                  /\ compileTime' = W(n + 1)]_vars

\* C17 amended: the same, for a target file that can be opened for reading;
\* a newer file that cannot be opened is left untouched like an older one.
C17_AdoptNewerReadable ==
    [][(/\ lastOp'.op \in BuiltOps /\ lastOp'.arg = "own" /\ lastOp'.data = "idle"
        /\ compileTime < sourceTime)
         => \E order \in Orders(Targets) :
               LET n == Cardinality(Targets)
                   Newer(t, w) == /\ disk[t].exists /\ disk[t].readable
                                  /\ disk[t].mtime > sourceTime
                                  /\ disk[t].mtime > w
                   RECURSIVE W(_)
                   W(i) == IF i = 1 THEN compileTime
                           ELSE IF Newer(order[i - 1], W(i - 1))
                                THEN disk[order[i - 1]].mtime ELSE W(i - 1)
               IN /\ \A i \in 1..n :
                        contents'[order[i]] = IF Newer(order[i], W(i))
                                              THEN disk[order[i]].data
                                              ELSE contents[order[i]]
                  /\ compileTime' = W(n + 1)]_vars

\* C17 witness: a reconciliation adopted the rebuilt t1 and moved the
\* watermark to its time; t2, not later than the source, kept its bytes
C17_Witness ==
    /\ lastOp.op = "targetsBuilt"
    /\ emitted["t1"] = 1 /\ contents["t1"] = "b"
    /\ compileTime = disk["t1"].mtime /\ compileTime > sourceTime
    /\ disk["t2"].exists /\ disk["t2"].mtime <= sourceTime
    /\ contents["t2"] = "a"

\* C18: whether a reconciliation adopts a target depends on that target's
\* time, the source's time and the watermark at the start only: every
\* readable target later than the source and later than the initial watermark
\* is adopted, whatever the other targets and the visiting order are, and no
\* other target changes.
C18_PerTarget ==
    [][(/\ lastOp'.op \in BuiltOps /\ lastOp'.arg = "own" /\ lastOp'.data = "idle"
        /\ compileTime < sourceTime)
         => \A t \in Targets :
               contents'[t] = IF /\ disk[t].exists /\ disk[t].readable
                                 /\ disk[t].mtime > sourceTime
                                 /\ disk[t].mtime > compileTime
                              THEN disk[t].data ELSE contents[t]]_vars

\* C19: a buildStateChanged for another project, or while the own project is
\* building, or with a valid watermark not earlier than the source's time,
\* changes neither the cache nor the watermark, the flag, the tracked run or
\* anything else of the instance, and emits nothing.
C19_SkippedChangesNothing ==
    [][(/\ lastOp'.op \in BuiltOps
        /\ \/ lastOp'.arg # "own"
           \/ lastOp'.data = "building"
           \/ (compileTime # NoTime /\ compileTime >= sourceTime))
         => /\ UNCHANGED <<contents, compileTime, dirty, runVars, initialRun,
                           timer, lastEditor>>
            /\ emitted' = NoEmit]_vars

\* C19 witness: the notification of the finished own build was ignored with
\* the watermark at the source's time or later, although a readable target
\* with other bytes is later than both
C19_Witness ==
    /\ lastOp.op \in BuiltOps /\ lastOp.arg = "own" /\ lastOp.data = "idle"
    /\ compileTime # NoTime /\ compileTime >= sourceTime
    /\ \E t \in Targets : /\ disk[t].readable
                          /\ disk[t].mtime > sourceTime
                          /\ disk[t].mtime > compileTime
                          /\ contents[t] # disk[t].data

\* C20: handling buildStateChanged never starts a run and never changes the
\* dirty flag, the tracked watcher, the timer or the bound editor; the cache
\* keeps its keys and changes only through setContent, which signals every
\* change.
C20_ReconcileFrame ==
    [][lastOp'.op \in BuiltOps
         => /\ UNCHANGED <<dirty, runVars, initialRun, timer, lastEditor>>
            /\ lastOp'.started = 0
            /\ DOMAIN contents' = DOMAIN contents
            /\ \A p \in Paths :
                  emitted'[p] = IF p \in DOMAIN contents /\ contents'[p] # contents[p]
                                THEN 1 ELSE 0]_vars

\* C20 witness: a reconciliation adopted a target while the instance was
\* dirty with a run tracked
C20_Witness ==
    /\ lastOp.op = "targetsBuilt"
    /\ \E t \in Targets : emitted[t] = 1
    /\ dirty /\ m_watcher # NoWatcher /\ timer # TimerOff

\* C21 as stated: after onEditorChanged(editor) the instance is bound to that
\* editor iff it is not null and shows the source, and is unbound otherwise;
\* a bound editor has the current issues as its annotations and the instance
\* holds exactly one subscription to its document; after onEditorAboutToClose
\* of the bound editor the instance is unbound.
C21_Bind ==
    [][/\ lastOp'.op = "editorChanged" =>
            LET e == lastOp'.arg
            IN /\ lastEditor' = IF e # NoEditor /\ DocPath(e) = Source THEN e ELSE NoEditor
               /\ lastEditor' # NoEditor =>
                     (annotations'[lastEditor'] = Selections(issues) /\ subs' = 1)
               /\ lastEditor' = NoEditor => subs' = 0
       /\ lastOp'.op = "editorAboutToClose" =>
            (lastOp'.arg = lastEditor /\ lastEditor' = NoEditor /\ subs' = 0)]_vars

\* C21 amended: the same, the issues being pushed when the widget of the
\* editor is a text editor widget; an editor of another kind is bound and
\* subscribed to, its annotations are left alone.
C21_BindTextWidget ==
    [][/\ lastOp'.op = "editorChanged" =>
            LET e == lastOp'.arg
            IN /\ lastEditor' = IF e # NoEditor /\ DocPath(e) = Source THEN e ELSE NoEditor
               /\ lastEditor' # NoEditor =>
                     /\ subs' = 1
                     /\ annotations'[lastEditor'] = IF TextWidget(lastEditor')
                                                    THEN Selections(issues)
                                                    ELSE annotations[lastEditor']
               /\ lastEditor' = NoEditor => subs' = 0
       /\ lastOp'.op = "editorAboutToClose" =>
            (lastOp'.arg = lastEditor /\ lastEditor' = NoEditor /\ subs' = 0)]_vars

\* C21 witness: the source editor became current with issues stored that it
\* did not show yet, and shows them now
C21_Witness ==
    /\ lastOp.op = "editorChanged" /\ lastOp.arg = "eSrc"
    /\ lastEditor = "eSrc" /\ subs = 1
    /\ issues = <<Error2, Warning1>>
    /\ annotations["eSrc"] = Selections(issues)

\* C22 as stated: setCompileIssues stores the issues; a bound editor then
\* shows exactly the new ones and without a bound editor no editor changes;
\* whenever an editor is bound its annotations are the stored issues.
C22_Issues ==
    /\ [][lastOp'.op = "setCompileIssues" =>
            /\ lastEditor' = lastEditor
            /\ IF lastEditor # NoEditor
               THEN annotations' = [annotations EXCEPT ![lastEditor] = Selections(issues')]
               ELSE annotations' = annotations]_vars
    /\ [](lastEditor # NoEditor => annotations[lastEditor] = Selections(issues))

\* C22 amended: the same for a bound editor whose widget is a text editor
\* widget; a bound editor of another kind is not touched.
C22_IssuesTextWidget ==
    /\ [][lastOp'.op = "setCompileIssues" =>
            /\ lastEditor' = lastEditor
            /\ IF lastEditor # NoEditor /\ TextWidget(lastEditor)
               THEN annotations' = [annotations EXCEPT ![lastEditor] = Selections(issues')]
               ELSE annotations' = annotations]_vars
    /\ []((lastEditor # NoEditor /\ TextWidget(lastEditor))
             => annotations[lastEditor] = Selections(issues))

\* C22 witness: issues were replaced by a shorter list while the source
\* editor was bound, after it had shown a longer one
C22_Witness ==
    /\ lastOp.op = "setCompileIssues"
    /\ lastEditor = "eSrc"
    /\ issues = <<Warning1>>
    /\ annotations["eSrc"] = <<Selection(Warning1)>>

\* the live objects of a kind, in the order of their construction
RECURSIVE ByBirth(_)
ByBirth(S) ==
    IF S = {} THEN <<>>
    ELSE LET first == CHOOSE x \in S : \A y \in S : born[x] <= born[y]
         IN <<first>> \o ByBirth(S \ {first})

LiveFactories == {f \in FactoryIds : born[f] # 0}
LiveObservers == {o \in ObserverIds : born[o] # 0}

\* C23: annouceCreation calls newExtraCompiler(project, source, targets) once
\* on every observer alive at the call, in the order of their construction,
\* and on nobody else: an observer destroyed before the call or constructed
\* after it gets nothing for it.
C23_Announce ==
    /\ [][lastOp'.op = "annouceCreation" =>
            LET order == ByBirth(LiveObservers)
            IN /\ Len(notified') = Len(order)
               /\ \A i \in 1..Len(order) :
                     notified'[i] = [observer |-> order[i], project |-> lastOp'.arg,
                                     source |-> lastOp'.data,
                                     targets |-> lastOp'.result]]_vars
    /\ [][lastOp'.op # "annouceCreation" => notified' = notified]_vars

\* C23 witness: of three observers constructed, the first was destroyed
\* before the call; the two alive were notified, the later-built last
C23_Witness ==
    /\ lastOp.op = "annouceCreation"
    /\ Len(notified) = 2 /\ built = 3
    /\ born[notified[1].observer] = 2 /\ born[notified[2].observer] = 3

\* C24: after any constructions and destructions of factories,
\* extraCompilerFactories() returns the factories constructed and not yet
\* destroyed, each once, in the order of their construction.
C24_Factories ==
    /\ factories = ByBirth(LiveFactories)
    /\ lastOp.op = "extraCompilerFactories" => lastOp.result = ByBirth(LiveFactories)

\* C24 witness: the list was read after f1 had been destroyed and constructed
\* again behind f2
C24_Witness ==
    /\ lastOp.op = "extraCompilerFactories"
    /\ lastOp.result = <<"f2", "f1">>
    /\ born["f2"] < born["f1"] /\ built = 3

\* C25: deleteLater is called on the instance when and only when
\* projectRemoved names the owning project; the notification itself destroys
\* nothing, and for any other project it leaves the whole instance as it is.
C25_ProjectRemoved ==
    /\ [][lastOp'.op = "projectRemoved" =>
            /\ deletePending' = (deletePending \/ lastOp'.arg = "own")
            /\ UNCHANGED <<ctl, contents, compileTime, dirty, lastEditor, timer,
                           initialRun, runVars, issues, annotations>>
            /\ lastOp'.arg # "own" => deletePending' = deletePending]_vars
    /\ [][deletePending' # deletePending =>
            (lastOp'.op = "projectRemoved" /\ lastOp'.arg = "own")]_vars
    /\ [](ctl # "live" => deletePending)

\* C25 witness: another project was removed while the instance tracked a
\* run; it is not scheduled for deletion
C25_Witness ==
    /\ lastOp.op = "projectRemoved" /\ lastOp.arg = "other"
    /\ ~deletePending /\ ctl = "live"
    /\ m_watcher # NoWatcher

\* C26: a device restored by fromMap(toMap()), or by clone(), has the type,
\* id, origin, display name, machine type, SSH parameters, free ports (an
\* empty list included), version, debug server path, qmlscene command and
\* extra data of the device it was made from.
C26_RoundTrip ==
    lastOp.op \in {"fromMap", "clone"} => restored = device

\* the worker returned at the command check or at the source check
Early(t) ==
    \/ t.cmd \in {"empty", "notExecutable"}
    \/ t.content = NullContent
    \/ t.prepared = "refused"

Untouched(t) ==
    /\ t.proc = "none"
    /\ t.started = 0 /\ t.finished = 0 /\ t.error = 0
    /\ t.reported = 0

\* C27: when the command is empty or not executable, the provider yields null
\* or prepareToRun returns false, the worker starts no process, calls none of
\* handleProcessStarted, handleProcessFinished, handleProcessError and reports
\* no result; prepareToRun is asked only after the command check passed and
\* the provider yielded non-null contents; cleanUp for such a run leaves the
\* cached contents as they are.
C27_EarlyReturn ==
    /\ [](\A r \in 1..MaxRuns :
            /\ Early(th[r]) => Untouched(th[r]) /\ runs[r].results = 0
            /\ th[r].prepared # "notAsked" =>
                  th[r].cmd = "executable" /\ th[r].content \notin {"", NullContent})
    /\ [][\A r \in 1..MaxRuns :
            lastOp'.op = "cleanUp" /\ lastOp'.sender = r /\ Early(th[r])
               => contents' = contents]_vars

C27_Witness ==
    /\ lastOp.op = "cleanUp"
    /\ lastOp.sender \in 1..MaxRuns
    /\ th[lastOp.sender].pc = "returned"
    /\ th[lastOp.sender].prepared = "refused"

\* C28: when the process fails to start, handleProcessError is called exactly
\* once, handleProcessStarted and handleProcessFinished are not called, and
\* the run reports no result.
C28_StartFailure ==
    \A r \in 1..MaxRuns :
        th[r].proc = "failedToStart" =>
            /\ th[r].pc = "returned"
            /\ th[r].error = 1
            /\ th[r].started = 0 /\ th[r].finished = 0
            /\ th[r].reported = 0 /\ runs[r].results = 0

C28_Witness ==
    /\ lastOp.op = "threadStart"
    /\ th[lastOp.run].proc = "failedToStart"

\* the checkpoints at which the worker saw the future cancelled
Observed(t) == t.observed # ""

\* C29: a worker execution reports at most one result; it has reported one
\* (what handleProcessFinished returned) when it returns exactly if the
\* process started, handleProcessStarted was called, the process exited on its
\* own and no isCanceled() check saw a cancellation; when a check saw one,
\* before handleProcessStarted, in the loop, or in the turn in which the
\* process finished, the process is killed and waited for and nothing is
\* reported.
C29_OneResult ==
    \A r \in 1..MaxRuns :
        /\ th[r].reported <= 1
        /\ th[r].reported = th[r].finished
        /\ th[r].pc = "returned" =>
              /\ th[r].reported = 1 <=>
                    (th[r].proc = "exited" /\ th[r].started = 1 /\ ~Observed(th[r]))
              /\ Observed(th[r]) =>
                    /\ th[r].killed = 1
                    /\ th[r].proc \in {"killed", "exited"}
                    /\ th[r].reported = 0 /\ runs[r].results = 0

C29_Witness ==
    /\ lastOp.op = "threadAfterLoop"
    /\ th[lastOp.run].observed = "withDone"
    /\ th[lastOp.run].killed = 1

\* C30: a worker in its poll loop whose future is cancelled sees the
\* cancellation in its next loop turn and leaves the loop; it then kills the
\* process, waits for it and returns.  No worker returns while its process
\* still runs, and with worker threads that keep running every execution
\* whose process has exited or whose future is cancelled returns eventually.
C30_CancelResponsive ==
    /\ [][\A r \in 1..MaxRuns :
            lastOp'.op = "threadPoll" /\ lastOp'.run = r /\ runs[r].cancelled
               => th'[r].pc = "afterLoop" /\ th'[r].isCanceled]_vars
    /\ [][\A r \in 1..MaxRuns :
            lastOp'.op = "threadAfterLoop" /\ lastOp'.run = r /\ th[r].isCanceled
               => /\ th'[r].pc = "returned"
                  /\ th'[r].killed = 1
                  /\ th'[r].proc \in {"killed", "exited"}
                  /\ th'[r].reported = 0]_vars
    /\ [](\A r \in 1..MaxRuns : th[r].pc = "returned" => th[r].proc # "running")
    /\ \A r \in 1..MaxRuns :
          (th[r].pc \notin {"none", "returned"}
             /\ (th[r].proc = "exited" \/ runs[r].cancelled))
          ~> th[r].pc = "returned"

C30_Witness ==
    /\ lastOp.op = "threadAfterLoop"
    /\ th[lastOp.run].pc = "returned"
    /\ th[lastOp.run].observed = "polling"
    /\ th[lastOp.run].proc = "killed"

\* C31: the provider is called by the worker, not when the run is set up.  A
\* run on the file path holds the path until the worker reads the file, and
\* gets what the file holds at that moment; a run on bytes gets the bytes the
\* document had when the run was triggered.
C31_LazyProvider ==
    /\ [][lastOp'.started # 0 =>
            runs'[lastOp'.started].input =
               IF lastOp'.op = "initialRun" THEN FileProvider ELSE BytesProvider(doc)]_vars
    /\ [][\A r \in 1..MaxRuns :
            lastOp'.op = "threadProvide" /\ lastOp'.run = r =>
               th'[r].content = IF runs[r].input.kind = "file" THEN sourceFile
                                ELSE runs[r].input.bytes]_vars

\* the file was written after the run was set up and the worker read the new
\* bytes
C31_Witness ==
    /\ lastOp.op = "threadProvide" /\ lastOp.arg = "afterWrite"
    /\ lastOp.started = 0
    /\ th[lastOp.run].content = "f2"
    /\ sourceFile = "f2"
    /\ lastOp.data = "f2"

\* C32: starting a run does not cancel an earlier run that is executing: the
\* step that starts a run leaves every earlier run where it is and its future
\* not cancelled; a future is cancelled only by the destructor, and a worker
\* whose run was replaced leaves its poll loop only when its process is done.
C32_NoCancelOnRestart ==
    /\ [][lastOp'.started # 0 =>
            \A r \in 1..Len(runs) :
                /\ runs'[r].st = runs[r].st
                /\ runs'[r].cancelled = runs[r].cancelled]_vars
    /\ [][\A r \in 1..Len(runs) :
            (runs'[r].cancelled /\ ~runs[r].cancelled) => lastOp'.op = "destroy"]_vars
    /\ [][(lastOp'.op = "workerEnd" /\ lastOp'.run # m_watcher)
             => (~runs[lastOp'.run].cancelled /\ lastOp'.results = 1)]_vars

\* a second run is started while the first is in its poll loop
C32_Witness ==
    /\ lastOp.started = 2
    /\ runs[1].st = "polling" /\ ~runs[1].cancelled

\* the control thread is inside waitForFinished() on a run that has not
\* finished
Waiting ==
    /\ ctl = "dtorWait"
    /\ m_watcher # NoWatcher
    /\ runs[m_watcher].st \in {"queued", "polling"}

\* a handler that starts a run returns with the run still queued; cleanUp
\* runs for a run that has finished; the cache changes through cleanUp only
Asynchronous ==
    /\ lastOp.started # 0 => (runs[lastOp.started].st = "queued" /\ ctl = "live")
    /\ lastOp.op = "cleanUp" => runs[lastOp.sender].st = "handled"
    /\ emitted # NoEmit => lastOp.op = "cleanUp"

\* C33: the control thread never waits for a run: no operation of the control
\* thread waits for a worker execution or a process, and results reach the
\* instance only through cleanUp.
C33_NeverBlocks == ~Waiting /\ Asynchronous

\* C33, amended: the control thread waits for a run only in the destructor,
\* which cancels the tracked run and waits for it, and nothing else runs on
\* the control thread meanwhile; every other operation returns without
\* waiting, and results reach the instance only through cleanUp.
C33_BlocksOnlyInDestructor ==
    /\ Asynchronous
    /\ Waiting => runs[m_watcher].cancelled
    /\ ctl = "dtorWait" => lastOp.op \in {"destroy", "workerBegin", "workerEnd"}

C33_Witness ==
    /\ Waiting
    /\ runs[m_watcher].st = "polling"
    /\ lastOp.op = "destroy"

\* the steps of runInThread and of its process
ThreadOps ==
    {"threadEnter", "threadProvide", "threadStart", "threadFirstCheck",
     "threadPoll", "threadAfterLoop", "processExits"}

\* C34: a worker execution leaves the content cache, the watermark, the dirty
\* flag, the bound editor and the tracked watcher as they are, whatever it
\* does; these change in control-thread handlers only, and the cache takes a
\* run's output in cleanUp only.
C34_WorkerTouchesNothing ==
    /\ [][lastOp'.op \in ThreadOps =>
            UNCHANGED <<contents, compileTime, dirty, lastEditor, m_watcher,
                        watchers, emitted>>]_vars
    /\ [][(contents' # contents \/ compileTime' # compileTime)
             => (lastOp'.op = "cleanUp" /\ lastOp'.adopted)]_vars

\* a worker has reported a result and the cache does not hold it yet
C34_Witness ==
    /\ lastOp.op = "threadAfterLoop"
    /\ th[lastOp.run].reported = 1
    /\ runs[lastOp.run].results = 1
    /\ \A t \in Targets : contents[t] \notin OutBytes

\* C35: a run is started by the deferred run of the constructor, by a timer
\* expiry with the dirty flag set and an editor bound, or by a detach with the
\* dirty flag set, and by nothing else; cleanUp, whether the run failed,
\* reported nothing or was adopted, starts no run and schedules none.
C35_NoRetry ==
    /\ [][Len(runs') # Len(runs) =>
            /\ Len(runs') = Len(runs) + 1
            /\ \/ lastOp'.op = "initialRun" /\ initialRun > 0
               \/ lastOp'.op = "timeout" /\ dirty /\ lastEditor # NoEditor
               \/ lastOp'.op \in DetachOps /\ dirty /\ lastEditor # NoEditor]_vars
    /\ [][lastOp'.op = "cleanUp" =>
            /\ Len(runs') = Len(runs)
            /\ UNCHANGED <<initialRun, dirty, timer>>
            /\ \A r \in 1..Len(runs) :
                  runs'[r].st \in {"queued", "polling"} => runs'[r].st = runs[r].st]_vars

\* the completion of a run without result was handled and nothing is pending
C35_Witness ==
    /\ lastOp.op = "cleanUp" /\ lastOp.results = 0
    /\ lastOp.run # 0
    /\ initialRun = 0 /\ ~dirty /\ timer = TimerOff
    /\ \A r \in 1..Len(runs) : runs[r].st = "handled"

\* C36: the dirty flag is set only while an editor is bound; setDirty is
\* connected to the source document exactly while an editor is bound, once;
\* an edit of the document made while no editor is bound sets no flag, starts
\* no timer and no run.
C36_DirtyOnlyWhenBound ==
    /\ [](dirty => lastEditor # NoEditor)
    /\ [](subs = IF lastEditor # NoEditor THEN 1 ELSE 0)
    /\ [][lastOp'.op \in {"edit", "setDirty"} =>
            IF lastEditor = NoEditor
            THEN lastOp'.op = "edit" /\ UNCHANGED <<dirty, timer, runs>>
            ELSE lastOp'.op = "setDirty"]_vars

\* an edit made after the editor was dropped: the timer of the earlier edit is
\* still running and is not started again
C36_Witness ==
    /\ lastOp.op = "edit"
    /\ lastEditor = NoEditor /\ ~dirty
    /\ timer > 0 /\ timer < IntervalTicks
    /\ Len(runs) = 1

\* C37: the dirty flag goes from set to clear only in a step that starts a
\* run, on the document's bytes of that moment; the constructor, which clears
\* the flag it set during its scan, schedules the deferred run.
C37_ClearedWithRun ==
    /\ [][(dirty /\ ~dirty') =>
            /\ Len(runs') = Len(runs) + 1
            /\ lastOp'.started = Len(runs')
            /\ m_watcher' = Len(runs')
            /\ runs'[Len(runs')] = NewRun(BytesProvider(doc))]_vars
    /\ [](lastOp.op = "ctor" =>
            /\ ~dirty
            /\ Construct(Targets, disk, sourceTime).dirty => initialRun = 1)

\* the timer cleared the flag a second time, with the second run
C37_Witness ==
    /\ lastOp.op = "timeout" /\ lastOp.started = 2
    /\ ~dirty
    /\ runs[2].st = "queued"

\* a run was started after the state with n runs, on the document's bytes of
\* the moment of its start
StartedAfter(n) ==
    /\ Len(runs) > n
    /\ lastOp.started = Len(runs)
    /\ runs[Len(runs)].input = BytesProvider(doc)

\* C38: with a timer that is served, every change of the document seen while
\* an editor is bound is followed by the start of a run on a snapshot taken
\* at or after the change, or by the destruction of the instance.
C38_EditLeadsToRun ==
    \A n \in 0..(MaxRuns - 1) :
        (dirty /\ Live /\ Len(runs) = n) ~> (StartedAfter(n) \/ ~Live)

\* C38, amended: the same unless changes of the document keep coming, each
\* restarting the timer before it expires.
C38_EditLeadsToRunWhenEditsPause ==
    \A n \in 0..(MaxRuns - 1) :
        \/ []<>(lastOp.op = "setDirty")
        \/ (dirty /\ Live /\ Len(runs) = n) ~> (StartedAfter(n) \/ ~Live)

\* the timer expired after two changes and started the run on the later bytes
C38_Witness ==
    /\ lastOp.op = "timeout" /\ lastOp.started = 1
    /\ StartedAfter(0)
    /\ burst = 2 /\ doc = "s2"
    /\ Live

\* steps that are no trigger: the workers and the completions
QuietOps == {"cleanUp", "workerBegin", "workerEnd"}
TriggerSeen == lastOp.op \notin QuietOps

\* the worker has just finished the run started last, of a living instance,
\* with a result
LatestDone(n) ==
    /\ Live
    /\ Len(runs) = n
    /\ lastOp.op = "workerEnd" /\ lastOp.run = n /\ lastOp.results = 1

\* cleanUp has just handled the run started last, whose result is m
LatestCompleted(n, m) ==
    /\ Len(runs) = n
    /\ lastOp.op = "cleanUp" /\ lastOp.run = n /\ lastOp.result = m

Agrees(m) == \A t \in DOMAIN m \cap Targets : contents[t] = m[t]

\* C39: unless a trigger comes, the result of the run started last reaches
\* cleanUp once the worker has finished it; when that result is not empty the
\* cache then holds it for every declared target of it and no run is tracked;
\* and while no run is tracked, steps that are no trigger (the end of an
\* earlier run among them) leave the cache as it is.
C39_Converges ==
    /\ \A n \in 1..MaxRuns :
          LatestDone(n) ~> \/ /\ lastOp.op = "cleanUp"
                              /\ lastOp.run = n /\ lastOp.results = 1
                           \/ TriggerSeen
    /\ [](\A n \in 1..MaxRuns, m \in FullMaps \ {<<>>} :
             LatestCompleted(n, m) => Agrees(m) /\ m_watcher = NoWatcher)
    /\ [][(m_watcher = NoWatcher /\ ~TriggerSeen')
             => (contents' = contents /\ m_watcher' = NoWatcher)]_vars

\* the second run was adopted, and the first, superseded, ends afterwards
C39_Witness ==
    /\ Len(runs) = 2 /\ runs[2].st = "handled" /\ m_watcher = NoWatcher
    /\ lastOp.op = "workerEnd" /\ lastOp.run = 1 /\ lastOp.results = 1
    /\ \E t \in Targets : contents[t] \in OutBytes

\* the targets for which the lambda of onTargetsBuilt passes its tests when
\* they are visited in this order
RECURSIVE ReconcileAdopted(_, _, _, _, _)
ReconcileAdopted(st, order, i, dsk, srcTime) ==
    IF i > Len(order) THEN {}
    ELSE (IF ReconcileAdopts(dsk[order[i]], st.ct, srcTime) THEN {order[i]} ELSE {})
         \cup ReconcileAdopted(ReconcileOne(st, order[i], dsk, srcTime),
                               order, i + 1, dsk, srcTime)

LatestTime(times) == CHOOSE x \in times : \A y \in times : y <= x

\* C40: onTargetsBuilt leaves the watermark as it is when it adopts no target;
\* when it adopts some, in whatever order the targets were visited, the
\* watermark becomes the latest modification time among the adopted targets
\* and is later than before.
C40_WatermarkForward ==
    [][lastOp'.op \in {"targetsBuilt", "targetsBuiltSkipped"} =>
         IF lastOp'.op = "targetsBuiltSkipped"
         THEN compileTime' = compileTime
         ELSE \A order \in Orders(DOMAIN contents) :
                 LET st0 == [ct |-> compileTime, c |-> contents, em |-> NoEmit]
                     st == Reconcile(st0, order, 1, disk, sourceTime)
                     adopted == ReconcileAdopted(st0, order, 1, disk, sourceTime)
                 IN (st.c = contents' /\ st.ct = compileTime' /\ st.em = emitted')
                    => IF adopted = {}
                       THEN compileTime' = compileTime
                       ELSE /\ compileTime' = LatestTime({disk[t].mtime : t \in adopted})
                            /\ compileTime' > compileTime]_vars

\* two targets written at different times after the source were both adopted
\* and the watermark is the later of the two times
C40_Witness ==
    /\ lastOp.op = "targetsBuilt"
    /\ \A t \in Targets : disk[t].readable /\ disk[t].mtime > sourceTime
    /\ disk["t1"].mtime # disk["t2"].mtime
    /\ emitted["t1"] = 1 /\ emitted["t2"] = 1
    /\ compileTime = LatestTime({disk[t].mtime : t \in Targets})


====
